---- MODULE Spec2Model ----
(***************************************************************************)
(* A model of tag-finder: the text processor, the class extractor, the     *)
(* usage scanner, the file walker and the unused-class detector.           *)
(*                                                                         *)
(* A string is a sequence of characters; a character is a one-element      *)
(* string, except the two characters a TLA+ string literal cannot hold:    *)
(* "BACKTICK" stands for the grave accent and "U+00E9" for the letter      *)
(* e-acute, the model's representative of the alphanumeric characters      *)
(* outside ASCII.                                                          *)
(***************************************************************************)
EXTENDS Integers, Sequences, FiniteSets, TLC

VARIABLES
    \* generate_report (unused_detector.rs)
    dir,              \* the directory tree: its files in WalkDir order
    config,           \* UnusedDetector.config: None or Some(Config)
    pc,               \* position of generate_report
    all_files,        \* all_files_with_content: the snapshot
    classes,          \* the extracted class records
    dynamic_patterns, \* the inferred DynamicPatterns
    exact_results,    \* phase 1: per class, None or its UnusedClass
    pattern_results,  \* phase 2: per potentially unused class, None or its flag
    report,           \* the UnusedReport returned, None before
    \* FileScanner::scan (scanner.rs)
    scanner_config,   \* FileScanner.config
    target_word,      \* the word searched
    files,            \* files_with_content handed to scan
    scan_result,      \* the ScanResult returned, None before
    \* TextProcessor::find_exact_words (text_processor.rs)
    content,          \* the content searched
    found,            \* the boolean returned, None before
    \* CssParser::extract_classes_parallel, then detect_patterns
    css_files_with_content, \* the stylesheet files handed to the extractor
    file_tasks,       \* per file, None or the records of its flat_map closure
    extracted,        \* the class records returned, None before
    inferred,         \* the patterns detect_patterns returns, None before
    \* FileWalker (file_walker.rs)
    entries,          \* what WalkDir yields under FileWalker.directory, in its order
    file_filter,      \* FileWalker.file_filter
    seq_result,       \* what walk_with_content returns, None before
    par_files,        \* walk_with_content_parallel: the files of its walk, None before
    read_tasks,       \* per file of par_files, None or the result of its read
    par_result,       \* what walk_with_content_parallel returns, None before
    \* TextProcessor::detect_dynamic_patterns (text_processor.rs)
    given_names,      \* the names handed to it
    detected,         \* the patterns returned, None before
    \* TextProcessor::find_pattern_usage (text_processor.rs)
    usage_content,    \* the content searched
    usage_pattern,    \* the DynamicPattern looked for
    usage_found,      \* the boolean returned, None before
    \* ParallelProcessor::process (parallel_processor.rs)
    proc_pc,          \* "idle", "call" (entered), "pool" (pool built), "done" (returned)
    items,            \* the items given
    thread_count,     \* self.thread_count
    show_progress,    \* self.show_progress
    pool,             \* the number of threads of the pool, None before it is built
    task_state,       \* per item: "todo", "running", "done"
    applied,          \* per item: how many times the worker was called on it
    progress_counter, \* the counter of update_progress
    task_results,     \* per item: the Result of its application, None before
    full,             \* the collect has seen an error and takes no more items
    saved_error,      \* the item whose error the collect has kept, None if none
    proc_result,      \* the Result returned, None before
    \* UnusedDetector::generate_report in an environment where a thread pool
    \* may fail to build
    gen_result,       \* the Result returned, None before
    failures,         \* the failures that have occurred, by where
    \* update_progress (utils.rs) under the workers of ParallelProcessor::process
    total,            \* the number of items of the batch
    taken,            \* how many items the workers have taken
    worker_pc,        \* per worker: where it is in update_progress
    lock_holder,      \* the worker that holds the lock of the counter, None if free
    counter,          \* the progress counter
    reported,         \* the values printed, in the order of printing
    \* TextProcessor::process_content (text_processor.rs)
    source_lines,     \* the lines the content is made of
    source_text,      \* the content
    text_matches,     \* the matches returned, None before
    \* App and Controls (frontend/src/app.rs, components/controls.rs)
    app_state,        \* the AppState
    selected_directory, \* the directory chosen, "" before
    search_word,      \* the text of the search input
    pending,          \* the backend requests whose callback has not run yet
    issued,           \* how many backend requests have been started
    \* The builder methods of FileWalker (file_walker.rs)
    tree_entries,     \* what WalkDir yields under the directory of the walker
    walker,           \* the FileWalker: file_filter, thread_count, config
    calls,            \* the builder calls made on it, in order
    walked            \* what walk returns, None before

reportVars == <<dir, config, pc, all_files, classes, dynamic_patterns,
                exact_results, pattern_results, report>>
scanVars == <<scanner_config, files, scan_result>>
wordVars == <<content, found>>
extractVars == <<css_files_with_content, file_tasks, extracted, inferred>>
walkVars == <<entries, file_filter, seq_result, par_files, read_tasks, par_result>>
detectVars == <<given_names, detected>>
usageVars == <<usage_content, usage_pattern, usage_found>>
processVars ==
    <<proc_pc, items, thread_count, show_progress, pool, task_state, applied,
      progress_counter, task_results, full, saved_error, proc_result>>
failVars == <<gen_result, failures>>
progressVars == <<total, taken, worker_pc, lock_holder, counter, reported>>
contentVars == <<source_lines, source_text, text_matches>>
guiVars == <<app_state, selected_directory, search_word, pending, issued>>
buildVars == <<tree_entries, walker, calls, walked>>
restVars == <<progressVars, contentVars, guiVars, buildVars>>
moreVars == <<failVars, restVars>>
laterVars == <<extractVars, walkVars, detectVars, usageVars, processVars, moreVars>>
vars == <<reportVars, scanVars, wordVars, target_word, laterVars>>

(***************************************************************************)
(* Characters                                                              *)
(***************************************************************************)
AsciiLetter ==
    {"a", "b", "c", "d", "e", "f", "g", "h", "i", "j", "k", "l", "m", "n",
     "o", "p", "q", "r", "s", "t", "u", "v", "w", "x", "y", "z", "A", "T", "Z"}
AsciiDigit == {"0", "1", "2", "3", "4", "5", "6", "7", "8", "9"}
UnicodeLetter == {"U+00E9"}
Whitespace == {" ", "\t", "\n", "\r"}
Punctuation ==
    {".", "{", "}", "<", ">", "=", "\"", "'", "BACKTICK", "$", "+", "/", "*",
     "_", "-", ":", ";", "#"}
Char == AsciiLetter \cup AsciiDigit \cup UnicodeLetter \cup Whitespace \cup Punctuation

\* char::is_alphanumeric: Unicode letters and digits
is_alphanumeric(c) == c \in AsciiLetter \cup AsciiDigit \cup UnicodeLetter
\* char::is_ascii_digit
is_ascii_digit(c) == c \in AsciiDigit
\* char::is_whitespace
is_whitespace(c) == c \in Whitespace

\* An Option is a sequence of length at most one
None == <<>>
Some(v) == <<v>>
IsSome(o) == o # <<>>
Unwrap(o) == o[1]

\* The strings over alphabet S of length at most n
StringsUpTo(S, n) == UNION {[1..k -> S] : k \in 0..n}

\* str::starts_with
starts_with(s, p) == Len(p) <= Len(s) /\ SubSeq(s, 1, Len(p)) = p

\* str::contains: p occurs in s as a substring
str_contains(s, p) ==
    \E i \in 1..(Len(s) + 1) : i + Len(p) - 1 <= Len(s) /\ SubSeq(s, i, i + Len(p) - 1) = p

\* str::split(pred): the pieces between the characters of seps (those that
\* satisfy pred), empty pieces included (n separators give n + 1 pieces)
RECURSIVE SplitFrom(_, _, _, _)
SplitFrom(s, i, cur, seps) ==
    IF i > Len(s) THEN <<cur>>
    ELSE IF s[i] \in seps THEN <<cur>> \o SplitFrom(s, i + 1, <<>>, seps)
    ELSE SplitFrom(s, i + 1, Append(cur, s[i]), seps)

\* str::trim: leading and trailing whitespace removed
RECURSIVE trim_start(_)
trim_start(s) ==
    IF s # <<>> /\ is_whitespace(s[1]) THEN trim_start(Tail(s)) ELSE s
RECURSIVE trim_end(_)
trim_end(s) ==
    IF s # <<>> /\ is_whitespace(s[Len(s)]) THEN trim_end(SubSeq(s, 1, Len(s) - 1)) ELSE s
trim(s) == trim_end(trim_start(s))

\* str::lines: split at "\n", a "\r" before the "\n" dropped, and no empty
\* last line after a final "\n"
StripCr(piece) ==
    IF piece # <<>> /\ piece[Len(piece)] = "\r" THEN SubSeq(piece, 1, Len(piece) - 1) ELSE piece
lines(s) ==
    LET pieces == SplitFrom(s, 1, <<>>, {"\n"})
        n == Len(pieces)
        kept == IF pieces[n] = <<>> THEN n - 1 ELSE n
    IN  [k \in 1..kept |-> IF k < n THEN StripCr(pieces[k]) ELSE pieces[k]]

(***************************************************************************)
(* text_processor.rs                                                       *)
(***************************************************************************)
\* The separator test of find_exact_words and contains_special_chars:
\* !c.is_alphanumeric() && c != '_' && c != '-'
IsSeparator(c) == ~is_alphanumeric(c) /\ c # "_" /\ c # "-"

Separators == {c \in Char : IsSeparator(c)}

\* A search by substring, without word boundaries
find_exact_words_substring(s, target) == str_contains(s, target)

\* TextProcessor::find_exact_words
find_exact_words(s, target) ==
    LET tokens == SplitFrom(s, 1, <<>>, Separators)
    IN  \E k \in 1..Len(tokens) : tokens[k] = target

\* A test on the line as it is, not trimmed
is_ignored_line_untrimmed(line) ==
    \/ starts_with(line, <<"/", "/">>)
    \/ starts_with(line, <<"/", "*">>)
    \/ line = <<>>

\* TextProcessor::is_ignored_line
is_ignored_line(line) ==
    LET trimmed == trim(line)
    IN  \/ starts_with(trimmed, <<"/", "/">>)
        \/ starts_with(trimmed, <<"/", "*">>)
        \/ trimmed = <<>>

\* The pattern css_class, \.([a-zA-Z][a-zA-Z0-9_-]*): its character classes
IsClassFirstChar(c) == c \in AsciiLetter
IsClassChar(c) == c \in AsciiLetter \cup AsciiDigit \cup {"_", "-"}
\* The last index of the greedy run [a-zA-Z0-9_-]* that continues from j
RECURSIVE ClassRunEnd(_, _)
ClassRunEnd(line, j) ==
    IF j + 1 <= Len(line) /\ IsClassChar(line[j + 1]) THEN ClassRunEnd(line, j + 1) ELSE j
\* Regex::captures_iter for css_class: group 1 of the successive
\* non-overlapping leftmost matches in line, from index i on
RECURSIVE captures_iter(_, _)
captures_iter(line, i) ==
    IF i + 1 > Len(line) THEN <<>>
    ELSE IF line[i] = "." /\ IsClassFirstChar(line[i + 1])
         THEN LET j == ClassRunEnd(line, i + 1)
              IN  <<SubSeq(line, i + 1, j)>> \o captures_iter(line, j + 1)
         ELSE captures_iter(line, i + 1)

RECURSIVE process_lines_from(_, _)
process_lines_from(ls, k) ==
    IF k > Len(ls) THEN <<>>
    ELSE LET caps == IF is_ignored_line(ls[k]) THEN <<>> ELSE captures_iter(ls[k], 1)
         IN  [m \in 1..Len(caps) |->
                 [pattern_name |-> "css_class", matched_text |-> caps[m], line |-> k]]
             \o process_lines_from(ls, k + 1)

\* TextProcessor::process_content, for the one pattern ever registered
\* (css_class); the column of a TextMatch, which nothing reads, is left out
process_content(text) == process_lines_from(lines(text), 1)

\* TextProcessor::extract_pattern_key: the first separator of ['-', '_']
\* that the name contains decides
FirstIndexOf(name, c) == CHOOSE i \in 1..Len(name) : name[i] = c /\ \A j \in 1..(i - 1) : name[j] # c
LastIndexOf(name, c) == CHOOSE i \in 1..Len(name) : name[i] = c /\ \A j \in (i + 1)..Len(name) : name[j] # c
KeyBySeparator(name, separator) ==
    LET sep_pos == FirstIndexOf(name, separator)
        prefix == SubSeq(name, 1, sep_pos)
        separator_count == Cardinality({i \in 1..Len(name) : name[i] = separator})
        last_sep == LastIndexOf(name, separator)
    IN  IF separator_count > 1 /\ last_sep # sep_pos
        THEN prefix \o SubSeq(name, last_sep, Len(name))
        ELSE prefix
\* A key taken at the separator character that comes first in the name
extract_pattern_key_first_in_name(name) ==
    LET positions == {i \in 1..Len(name) : name[i] \in {"-", "_"}}
    IN  IF positions = {} THEN None
        ELSE Some(KeyBySeparator(name, name[CHOOSE i \in positions : \A j \in positions : i <= j]))

\* TextProcessor::extract_pattern_key: the separators are tried in the order
\* '-', '_'
extract_pattern_key(name) ==
    IF \E i \in 1..Len(name) : name[i] = "-" THEN Some(KeyBySeparator(name, "-"))
    ELSE IF \E i \in 1..Len(name) : name[i] = "_" THEN Some(KeyBySeparator(name, "_"))
    ELSE None

\* TextProcessor::create_dynamic_pattern: the common prefix and the common
\* suffix of the names, character by character from the first name
RECURSIVE CommonPrefixLen(_, _)
CommonPrefixLen(names, i) ==
    IF /\ i + 1 <= Len(names[1])
       /\ \A k \in 1..Len(names) : i + 1 <= Len(names[k]) /\ names[k][i + 1] = names[1][i + 1]
    THEN CommonPrefixLen(names, i + 1) ELSE i
RECURSIVE CommonSuffixLen(_, _)
CommonSuffixLen(names, i) ==
    IF /\ i + 1 <= Len(names[1])
       /\ \A k \in 1..Len(names) :
              /\ Len(names[k]) >= i + 1
              /\ names[k][Len(names[k]) - i] = names[1][Len(names[1]) - i]
    THEN CommonSuffixLen(names, i + 1) ELSE i
\* str::len and String::len: the length in bytes of the UTF-8 encoding
RECURSIVE utf8_len(_)
utf8_len(s) ==
    IF s = <<>> THEN 0
    ELSE (IF Head(s) \in UnicodeLetter THEN 2 ELSE 1) + utf8_len(Tail(s))

\* A pattern built whatever the length of the common prefix
create_dynamic_pattern_any_prefix(names) ==
    LET first_class == names[1]
        prefix == SubSeq(first_class, 1, CommonPrefixLen(names, 0))
        suffix == SubSeq(first_class, Len(first_class) - CommonSuffixLen(names, 0) + 1,
                         Len(first_class))
    IN  Some([prefix |-> prefix, suffix |-> suffix,
              pattern |-> prefix \o <<"*">> \o suffix,
              matching_classes |-> names])

create_dynamic_pattern(names) ==
    LET first_class == names[1]
        prefix == SubSeq(first_class, 1, CommonPrefixLen(names, 0))
        suffix == SubSeq(first_class, Len(first_class) - CommonSuffixLen(names, 0) + 1,
                         Len(first_class))
    IN  IF utf8_len(prefix) >= 2
        THEN Some([prefix |-> prefix, suffix |-> suffix,
                   pattern |-> prefix \o <<"*">> \o suffix,
                   matching_classes |-> names])
        ELSE None

\* TextProcessor::detect_dynamic_patterns. pattern_groups maps a key to the
\* names that have it, in the order given; the patterns come out in the
\* iteration order of a HashMap, which is unspecified, so they are a set
NamesWithKey(class_names, key) ==
    LET HasKey(name) == extract_pattern_key(name) = Some(key)
    IN  SelectSeq(class_names, HasKey)
detect_dynamic_patterns(class_names) ==
    LET keys == {Unwrap(extract_pattern_key(class_names[k])) :
                    k \in {j \in 1..Len(class_names) : IsSome(extract_pattern_key(class_names[j]))}}
        groups == {NamesWithKey(class_names, key) : key \in keys}
    IN  {Unwrap(create_dynamic_pattern(g)) :
            g \in {h \in groups : Len(h) >= 2 /\ IsSome(create_dynamic_pattern(h))}}

\* A regular expression is a sequence of items; an item matches one
\* character of a set ("one"), or any number of them ("star"), or at least
\* one ("plus")
One(set) == [kind |-> "one", set |-> set]
Star(set) == [kind |-> "star", set |-> set]
Plus(set) == [kind |-> "plus", set |-> set]
\* regex::escape of a literal
Lit(str) == [k \in 1..Len(str) |-> One({str[k]})]
\* Whether items k.. of re match a run of text that starts at index i
RECURSIVE MatchFrom(_, _, _, _)
MatchFrom(re, k, text, i) ==
    IF k > Len(re) THEN TRUE
    ELSE LET here == i <= Len(text) /\ text[i] \in re[k].set
         IN  CASE re[k].kind = "one" -> here /\ MatchFrom(re, k + 1, text, i + 1)
               [] re[k].kind = "star" ->
                    \/ MatchFrom(re, k + 1, text, i)
                    \/ here /\ MatchFrom(re, k, text, i + 1)
               [] re[k].kind = "plus" ->
                    here /\ (MatchFrom(re, k + 1, text, i + 1) \/ MatchFrom(re, k, text, i + 1))
\* Regex::is_match: the expression matches somewhere in text
is_match(re, text) == \E i \in 1..(Len(text) + 1) : MatchFrom(re, 1, text, i)

Quote == {"\"", "'", "BACKTICK"}
\* \w and \s of the regex crate (Unicode), and . (all but the line feed)
RegexWord == AsciiLetter \cup AsciiDigit \cup UnicodeLetter \cup {"_"}
RegexSpace == Whitespace
RegexDot == Char \ {"\n"}

\* TextProcessor::find_string_concatenation_usage
find_string_concatenation_usage(text, pattern) ==
    LET p == Lit(pattern.prefix)
        x == Lit(pattern.suffix)
        plus_sign == <<Star(RegexSpace), One({"+"}), Star(RegexSpace)>>
        concat_patterns == {
            <<One(Quote)>> \o p \o <<One({"$"}), One({"{"}), Star(Char \ {"}"}), One({"}"})>>
                \o x \o <<One(Quote)>>,
            <<One(Quote)>> \o p \o <<One(Quote)>> \o plus_sign \o <<Plus(RegexWord)>>
                \o plus_sign \o <<One(Quote)>> \o x \o <<One(Quote)>>,
            <<One(Quote)>> \o p \o <<One(Quote)>> \o plus_sign \o <<Plus(RegexWord)>> }
    IN  \E re \in concat_patterns : is_match(re, text)

\* A search that leaves out the string concatenation forms
find_pattern_usage_without_concatenation(text, pattern) ==
    LET p == Lit(pattern.prefix)
        x == Lit(pattern.suffix)
        search_patterns == {
            p \o <<One({"$"}), One({"{"}), Star(Char \ {"}"}), One({"}"})>> \o x,
            p \o <<One({"{"}), Star(Char \ {"}"}), One({"}"})>> \o x,
            p \o <<One({"'", "BACKTICK"}), Star(Char \ {"'", "BACKTICK"}),
                   One({"'", "BACKTICK"})>> \o x,
            <<One(Quote)>> \o p \o <<One({"$"}), One({"{"}), Star(RegexDot), One({"}"})>>
                \o x \o <<One(Quote)>> }
    IN  \E re \in search_patterns : is_match(re, text)

\* TextProcessor::find_pattern_usage
find_pattern_usage(text, pattern) ==
    LET p == Lit(pattern.prefix)
        x == Lit(pattern.suffix)
        search_patterns == {
            p \o <<One({"$"}), One({"{"}), Star(Char \ {"}"}), One({"}"})>> \o x,
            p \o <<One({"{"}), Star(Char \ {"}"}), One({"}"})>> \o x,
            p \o <<One({"'", "BACKTICK"}), Star(Char \ {"'", "BACKTICK"}),
                   One({"'", "BACKTICK"})>> \o x,
            <<One(Quote)>> \o p \o <<One({"$"}), One({"{"}), Star(RegexDot), One({"}"})>>
                \o x \o <<One(Quote)>> }
    IN  \/ \E re \in search_patterns : is_match(re, text)
        \/ find_string_concatenation_usage(text, pattern)

(***************************************************************************)
(* css_parser.rs                                                           *)
(***************************************************************************)
\* A validity test that accepts every non-empty name
is_valid_class_name_nonempty(name) == Len(name) >= 1

\* CssParser::is_valid_class_name
is_valid_class_name(name) ==
    Len(name) >= 2 /\ ~(\A k \in 1..Len(name) : is_ascii_digit(name[k]))

\* A deduplication by name alone
deduplicate_classes_by_name(cs) ==
    LET Keep(k) == \A j \in 1..(k - 1) : cs[j].name # cs[k].name
        RECURSIVE From(_)
        From(k) == IF k > Len(cs) THEN <<>>
                   ELSE (IF Keep(k) THEN <<cs[k]>> ELSE <<>>) \o From(k + 1)
    IN  From(1)

\* CssParser::deduplicate_classes: retain the first record of each
\* (name, file)
deduplicate_classes(cs) ==
    LET Keep(k) == \A j \in 1..(k - 1) :
                       ~(cs[j].name = cs[k].name /\ cs[j].file = cs[k].file)
        RECURSIVE From(_)
        From(k) == IF k > Len(cs) THEN <<>>
                   ELSE (IF Keep(k) THEN <<cs[k]>> ELSE <<>>) \o From(k + 1)
    IN  From(1)

\* The flat_map closure of extract_classes_parallel: the records of one file
file_classes(f) ==
    LET matches == process_content(f.content)
        IsClass(m) == m.pattern_name = "css_class" /\ is_valid_class_name(m.matched_text)
        kept == SelectSeq(matches, IsClass)
    IN  [k \in 1..Len(kept) |->
            [name |-> kept[k].matched_text, file |-> f.path, line |-> kept[k].line]]

RECURSIVE all_file_classes(_)
all_file_classes(fs) ==
    IF fs = <<>> THEN <<>> ELSE file_classes(Head(fs)) \o all_file_classes(Tail(fs))

\* CssParser::extract_classes_parallel on the files the detector hands it:
\* the records of the files in their order (an indexed parallel flat_map
\* collects in input order), then deduplicated
extract_classes_parallel(fs) == deduplicate_classes(all_file_classes(fs))

\* CssParser::extract_classes, lines 42-67, on the files its walk read: the
\* sequential loop over the files, then the deduplication
CssParser_extract_classes(fs) == deduplicate_classes(all_file_classes(fs))

(***************************************************************************)
(* config.rs                                                               *)
(***************************************************************************)
\* Config::default (the three lists of ScanConfig; each is only ever tested
\* for membership)
DefaultConfig ==
    [exclude_dirs |-> {"node_modules", "dist", "build", ".git", ".vscode", ".idea", "target"},
     include_extensions |-> {"html", "js", "jsx", "ts", "tsx", "php"},
     css_extensions |-> {"css", "scss"}]
\* A configuration file that names another stylesheet extension
LessConfig == [DefaultConfig EXCEPT !.css_extensions = {"less"}]

\* Config::is_css_file
config_is_css_file(cfg, path) ==
    IsSome(path.ext) /\ Unwrap(path.ext) \in cfg.css_extensions

(***************************************************************************)
(* scanner.rs                                                              *)
(***************************************************************************)
\* FileScanner::contains_special_chars
contains_special_chars(word) == \E k \in 1..Len(word) : IsSeparator(word[k])

\* FileScanner::is_css_file
FileScanner_is_css_file(scfg, extension) ==
    IF IsSome(scfg)
    THEN IsSome(extension) /\ Unwrap(extension) \in Unwrap(scfg).css_extensions
    ELSE extension \in {Some("css"), Some("scss")}

has_match_always_exact(word, text) == find_exact_words(text, word)

\* The has_match of FileScanner::scan
has_match(word, text) ==
    IF contains_special_chars(word)
    THEN str_contains(text, word)
    ELSE find_exact_words(text, word)

\* The filter_map of FileScanner::scan: one ScanFileResult per matching
\* entry, in the order of the entries
RECURSIVE scan_file_results(_, _, _)
scan_file_results(scfg, word, fs) ==
    IF fs = <<>> THEN <<>>
    ELSE LET f == Head(fs)
             rest == scan_file_results(scfg, word, Tail(fs))
         IN  IF has_match(word, f.content)
             THEN <<[file_path |-> f.path,
                     is_css |-> FileScanner_is_css_file(scfg, f.path.ext)]>> \o rest
             ELSE rest

IsCss(r) == r.is_css
IsNotCss(r) == ~r.is_css
FilePaths(rs) == [k \in 1..Len(rs) |-> rs[k].file_path]

process_scan_results_other_empty(results) ==
    LET css_files == FilePaths(SelectSeq(results, IsCss))
        other_files == FilePaths(SelectSeq(results, IsNotCss))
    IN  [css_files |-> css_files, other_files |-> other_files,
         is_css_only |-> other_files = <<>>]

\* FileScanner::process_scan_results, with separate_items_by_condition
process_scan_results(results) ==
    LET css_files == FilePaths(SelectSeq(results, IsCss))
        other_files == FilePaths(SelectSeq(results, IsNotCss))
    IN  [css_files |-> css_files, other_files |-> other_files,
         is_css_only |-> css_files # <<>> /\ other_files = <<>>]

\* FileScanner::scan
scan(scfg, word, fs) == process_scan_results(scan_file_results(scfg, word, fs))

(***************************************************************************)
(* file_walker.rs                                                          *)
(***************************************************************************)
\* Path::components: the directory names and the file name
PathComponents(path) == {path.components[k] : k \in 1..Len(path.components)} \cup {path.name}

\* A filter that tests the extension and leaves the directories alone
with_config_filter_extensions_only(cfg, path) ==
    IsSome(path.ext) /\ Unwrap(path.ext) \in cfg.include_extensions \cup cfg.css_extensions

\* The file_filter that FileWalker::with_config installs
with_config_filter(cfg, path) ==
    /\ \A component \in PathComponents(path) : component \notin cfg.exclude_dirs
    /\ IsSome(path.ext)
    /\ Unwrap(path.ext) \in cfg.include_extensions \cup cfg.css_extensions

\* The file_filter of the walker generate_report builds: the one of
\* FileWalker::new (every path), replaced by with_config when there is a
\* configuration
report_walker_filter(cfg, path) ==
    IF IsSome(cfg) THEN with_config_filter(Unwrap(cfg), path) ELSE TRUE

\* FileWalker::walk, over the regular files of the tree in WalkDir order
walk(tree, cfg) ==
    LET Passes(f) == report_walker_filter(cfg, f.path)
    IN  SelectSeq(tree, Passes)

\* FileWalker::walk_with_content_parallel: the files read_to_string can
\* read, in the order of walk (the indexed parallel map collects in input
\* order)
walk_with_content_parallel(tree, cfg) ==
    LET Readable(f) == f.readable
        read == SelectSeq(walk(tree, cfg), Readable)
    IN  [k \in 1..Len(read) |-> [path |-> read[k].path, content |-> read[k].content]]

\* A Result: Ok(v), or an error
Ok(v) == [ok |-> TRUE, value |-> v]
Err == [ok |-> FALSE, value |-> <<>>]

\* The file_filter values: that of FileWalker::new (every path), that of
\* with_extensions and that of with_config
NewFilter == [kind |-> "new", extensions |-> {}, config |-> None]
ExtensionsFilter(extensions) ==
    [kind |-> "with_extensions", extensions |-> extensions, config |-> None]
ConfigFilter(cfg) == [kind |-> "with_config", extensions |-> {}, config |-> Some(cfg)]
\* The file_filter values of ConfigConfigurable::with_config and of with_filter
ExcludeDirsFilter(cfg) ==
    [kind |-> "exclude_dirs", extensions |-> {}, config |-> Some(cfg)]
ClosureFilter(closure) ==
    [kind |-> "with_filter", extensions |-> {}, config |-> None, closure |-> closure]

\* The file_filter that ConfigConfigurable::with_config installs
exclude_dirs_filter(cfg, path) ==
    \A component \in PathComponents(path) : component \notin cfg.exclude_dirs

\* The closures handed to with_filter: one that keeps the files named
\* Makefile, one that keeps nothing
closure_filter(closure, path) ==
    CASE closure = "is_makefile" -> path.name = "Makefile"
      [] closure = "none" -> FALSE

\* The file_filter that FileWalker::with_extensions installs
with_extensions_filter(extensions, path) ==
    IsSome(path.ext) /\ Unwrap(path.ext) \in extensions

\* (self.file_filter)(path)
ApplyFilter(filter, path) ==
    CASE filter.kind = "new" -> TRUE
      [] filter.kind = "with_extensions" -> with_extensions_filter(filter.extensions, path)
      [] filter.kind = "with_config" -> with_config_filter(Unwrap(filter.config), path)
      [] filter.kind = "exclude_dirs" -> exclude_dirs_filter(Unwrap(filter.config), path)
      [] filter.kind = "with_filter" -> closure_filter(filter.closure, path)

\* FileWalker::walk over what WalkDir yields: the regular files that pass
\* the filter, in WalkDir order
FileWalker_walk(es, filter) ==
    LET Kept(e) == e.is_file /\ ApplyFilter(filter, e.path)
    IN  SelectSeq(es, Kept)

\* A sequential read that gives up at the first file it cannot read
walk_with_content_until_unreadable(es, filter) ==
    LET fs == FileWalker_walk(es, filter)
        stop == IF \E k \in 1..Len(fs) : ~fs[k].readable
                THEN (CHOOSE k \in 1..Len(fs) :
                          ~fs[k].readable /\ \A j \in 1..(k - 1) : fs[j].readable) - 1
                ELSE Len(fs)
    IN  Ok([k \in 1..stop |-> [path |-> fs[k].path, content |-> fs[k].content]])

\* FileWalker::walk_with_content
walk_with_content(es, filter) ==
    LET Readable(e) == e.readable
        read == SelectSeq(FileWalker_walk(es, filter), Readable)
    IN  Ok([k \in 1..Len(read) |-> [path |-> read[k].path, content |-> read[k].content]])

\* A read worker that fails on a file it cannot read
read_worker_failing(e) ==
    IF e.readable THEN Ok(Some([path |-> e.path, content |-> e.content])) ELSE Err

\* The worker of walk_with_content_parallel, lines 103-108
read_worker(e) ==
    IF e.readable THEN Ok(Some([path |-> e.path, content |-> e.content])) ELSE Ok(None)

\* A collect that returns the successful results when a worker has failed
process_collect_keeping_successes(results) ==
    LET Succeeded(r) == IsSome(r) /\ Unwrap(r).ok
        kept == SelectSeq(results, Succeeded)
    IN  Ok([k \in 1..Len(kept) |-> Unwrap(kept[k]).value])

\* ParallelProcessor::process, lines 38-62: the collect of the workers'
\* results into a Result, in the order of the items
process_collect(results) ==
    IF \E k \in 1..Len(results) : IsSome(results[k]) /\ ~Unwrap(results[k]).ok
    THEN Err
    ELSE Ok([k \in 1..Len(results) |-> Unwrap(results[k]).value])

\* into_iter().flatten() over a Vec of Options
RECURSIVE flatten(_)
flatten(options) ==
    IF options = <<>> THEN <<>> ELSE Head(options) \o flatten(Tail(options))

\* walk_with_content_parallel, lines 101-112, on the workers' results
parallel_result(results) ==
    IF process_collect(results).ok THEN Ok(flatten(process_collect(results).value)) ELSE Err

(***************************************************************************)
(* unused_detector.rs                                                      *)
(***************************************************************************)
\* UnusedDetector::filter_css_files
filter_css_files(cfg, fs) ==
    LET IsStylesheet(f) ==
            IF IsSome(cfg) THEN config_is_css_file(Unwrap(cfg), f.path)
            ELSE f.path.ext \in {Some("css"), Some("scss")}
    IN  SelectSeq(fs, IsStylesheet)

\* UnusedDetector::extract_classes
extract_classes(fs) == extract_classes_parallel(fs)

\* UnusedDetector::detect_patterns
detect_patterns(cs) == detect_dynamic_patterns([k \in 1..Len(cs) |-> cs[k].name])

\* is_class_unused_exact, lines 259-261: the scan of the class name over the
\* snapshot; the scanner is FileScanner::new(), which has no configuration
phase1_scan(class, fs) == scan(None, class.name, fs)

is_class_unused_exact_negated(class, fs) == ~phase1_scan(class, fs).is_css_only

\* A scan that leaves out the file that declares the class
is_class_unused_exact_other_files(class, fs) ==
    LET Other(f) == f.path # class.file
    IN  scan(None, class.name, SelectSeq(fs, Other)).is_css_only

\* UnusedDetector::is_class_unused_exact
is_class_unused_exact(class, fs) == phase1_scan(class, fs).is_css_only

is_class_unused_dynamic_any_pattern(class, fs, patterns) ==
    \E pattern \in patterns :
        \E k \in 1..Len(fs) : find_pattern_usage(fs[k].content, pattern)

\* UnusedDetector::is_class_unused_dynamic: TRUE when the class is used
\* through a pattern
is_class_unused_dynamic(class, fs, patterns) ==
    \E pattern \in patterns :
        /\ \E m \in 1..Len(pattern.matching_classes) : pattern.matching_classes[m] = class.name
        /\ \E k \in 1..Len(fs) : find_pattern_usage(fs[k].content, pattern)

\* A collect that returns the successful results when a task has failed
collect_results_keeping_successes(results) ==
    LET Succeeded(r) == IsSome(r) /\ Unwrap(r).ok
        kept == SelectSeq(results, Succeeded)
    IN  Ok([k \in 1..Len(kept) |-> Unwrap(kept[k]).value])

\* analyze_class_usage, lines 156-180 and 203-215: the collect of the tasks'
\* results into a Result, and the ? on it
collect_results(results) ==
    IF \E k \in 1..Len(results) : IsSome(results[k]) /\ ~Unwrap(results[k]).ok
    THEN Err
    ELSE Ok([k \in 1..Len(results) |-> Unwrap(results[k]).value])

\* analyze_class_usage, lines 182-192: the classes of the phase-1 results
\* with the given flag, in order
ClassesWithFlag(results, flag) ==
    LET Has(r) == r.is_unused = flag
        kept == SelectSeq(results, Has)
    IN  [k \in 1..Len(kept) |-> kept[k].class]
\* A residual set that holds every class, whatever phase 1 found
potentially_unused_classes_all(results) == [k \in 1..Len(results) |-> results[k].class]
potentially_unused_classes(results) == ClassesWithFlag(results, TRUE)
used_by_exact_match(results) == ClassesWithFlag(results, FALSE)

\* analyze_class_usage, line 200: whether the pattern pass runs
runs_phase_2(results, patterns) ==
    potentially_unused_classes(results) # <<>> /\ patterns # {}

\* analyze_class_usage, lines 217-227: the final lists
PatternClasses(presults, flag) ==
    LET Has(r) == r.is_used_via_pattern = flag
        kept == SelectSeq(presults, Has)
    IN  [k \in 1..Len(kept) |-> kept[k].class]
final_used_classes_without_pattern_hits(results, presults, ran) == used_by_exact_match(results)
final_used_classes(results, presults, ran) ==
    IF ran THEN used_by_exact_match(results) \o PatternClasses(presults, TRUE)
    ELSE used_by_exact_match(results)
final_unused_classes(results, presults, ran) ==
    IF ran THEN PatternClasses(presults, FALSE)
    ELSE potentially_unused_classes(results)

build_by_file_used_only(used, unused) ==
    LET InFile(file, cs, flag) ==
            LET Here(c) == c.file = file
                kept == SelectSeq(cs, Here)
            IN  [k \in 1..Len(kept) |-> [class |-> kept[k], is_unused |-> flag]]
    IN  [file \in {used[k].file : k \in 1..Len(used)} |-> InFile(file, used, FALSE)]

\* analyze_class_usage, lines 229-250: by_file, the used records pushed
\* first, then the unused ones, each under its own file
build_by_file(used, unused) ==
    LET InFile(file, cs, flag) ==
            LET Here(c) == c.file = file
                kept == SelectSeq(cs, Here)
            IN  [k \in 1..Len(kept) |-> [class |-> kept[k], is_unused |-> flag]]
    IN  [file \in {used[k].file : k \in 1..Len(used)} \cup {unused[k].file : k \in 1..Len(unused)}
            |-> InFile(file, used, FALSE) \o InFile(file, unused, TRUE)]

\* generate_report, lines 77-82, on what analyze_class_usage returns
build_report(cs, results, presults, ran) ==
    LET used == final_used_classes(results, presults, ran)
        unused == final_unused_classes(results, presults, ran)
    IN  [total_classes |-> Len(cs),
         unused_classes |-> unused,
         used_classes |-> used,
         by_file |-> build_by_file(used, unused)]

(***************************************************************************)
(* generate_report on a directory tree                                     *)
(***************************************************************************)
MaxFiles == 3

ReportIdle ==
    /\ dir = <<>> /\ config = None /\ pc = "idle" /\ all_files = <<>>
    /\ classes = <<>> /\ dynamic_patterns = {} /\ exact_results = <<>>
    /\ pattern_results = <<>> /\ report = None
ScanIdle == scanner_config = None /\ files = <<>> /\ scan_result = None
WordIdle == content = <<>> /\ found = None
ExtractIdle ==
    /\ css_files_with_content = <<>> /\ file_tasks = <<>>
    /\ extracted = None /\ inferred = None
WalkIdle ==
    /\ entries = <<>> /\ file_filter = None /\ seq_result = None
    /\ par_files = None /\ read_tasks = <<>> /\ par_result = None
DetectIdle == given_names = <<>> /\ detected = None
UsageIdle == usage_content = <<>> /\ usage_pattern = None /\ usage_found = None
ProcessIdle ==
    /\ proc_pc = "idle" /\ items = <<>> /\ thread_count = None /\ show_progress = FALSE
    /\ pool = None /\ task_state = <<>> /\ applied = <<>> /\ progress_counter = 0
    /\ task_results = <<>> /\ full = FALSE /\ saved_error = None /\ proc_result = None
FailIdle == gen_result = None /\ failures = {}
ProgressIdle ==
    /\ total = 0 /\ taken = 0 /\ worker_pc = <<>> /\ lock_holder = None
    /\ counter = 0 /\ reported = <<>>
ContentIdle == source_lines = <<>> /\ source_text = <<>> /\ text_matches = None
GuiIdle ==
    /\ app_state = None /\ selected_directory = "" /\ search_word = ""
    /\ pending = {} /\ issued = 0
BuildIdle == tree_entries = <<>> /\ walker = None /\ calls = <<>> /\ walked = None
RestIdle == ProgressIdle /\ ContentIdle /\ GuiIdle /\ BuildIdle
MoreIdle == FailIdle /\ RestIdle
LaterIdle == ExtractIdle /\ WalkIdle /\ DetectIdle /\ UsageIdle /\ ProcessIdle /\ MoreIdle

\* .header{}.footer{}
StyleCssText ==
    <<".", "h", "e", "a", "d", "e", "r", "{", "}", ".", "f", "o", "o", "t", "e", "r",
          "{", "}">>
\* <div class="header">
IndexHtmlText ==
    <<"<", "d", "i", "v", " ", "c", "l", "a", "s", "s", "=", "\"", "h", "e", "a", "d",
          "e", "r", "\"", ">">>
\* three rules on three lines: .t-a{} .t-b{} .zz{}
TypesScssText ==
    <<".", "t", "-", "a", "{", "}", "\n", ".", "t", "-", "b", "{", "}", "\n", ".", "z",
          "z", "{", "}">>
\* a template literal: (backtick)t-${x}(backtick)
AppJsText ==
    <<"BACKTICK", "t", "-", "$", "{", "x", "}", "BACKTICK">>
\* t-a 't-' + x
MainJsText ==
    <<"t", "-", "a", " ", "'", "t", "-", "'", " ", "+", " ", "x">>
\* the same rule on two lines: .ab{} .ab{}
ThemeLessText ==
    <<".", "a", "b", "{", "}", "\n", ".", "a", "b", "{", "}">>
\* .ab{}
ExtraCssText ==
    <<".", "a", "b", "{", "}">>
\* .ab(e-acute){}
UniCssText ==
    <<".", "a", "b", "U+00E9", "{", "}">>
\* .header{}
LibCssText ==
    <<".", "h", "e", "a", "d", "e", "r", "{", "}">>

File(components, name, ext, text) ==
    [path |-> [components |-> components, name |-> name, ext |-> ext],
     content |-> text, readable |-> TRUE]
StyleCss == File(<<".">>, "style.css", Some("css"), StyleCssText)
IndexHtml == File(<<".">>, "index.html", Some("html"), IndexHtmlText)
TypesScss == File(<<".">>, "types.scss", Some("scss"), TypesScssText)
AppJs == File(<<".">>, "app.js", Some("js"), AppJsText)
MainJs == File(<<".">>, "main.js", Some("js"), MainJsText)
ThemeLess == File(<<".">>, "theme.less", Some("less"), ThemeLessText)
ExtraCss == File(<<".">>, "extra.css", Some("css"), ExtraCssText)
UniCss == File(<<".">>, "uni.css", Some("css"), UniCssText)
LibCss == File(<<".", "node_modules">>, "lib.css", Some("css"), LibCssText)
\* A file that read_to_string cannot read
BinCss == [File(<<".">>, "bin.css", Some("css"), <<>>) EXCEPT !.readable = FALSE]

FileUniverse ==
    {StyleCss, IndexHtml, TypesScss, AppJs, MainJs, ThemeLess, ExtraCss, UniCss, LibCss, BinCss}
\* The trees: at most MaxFiles files of the universe, in any WalkDir order
Trees ==
    {t \in StringsUpTo(FileUniverse, MaxFiles) :
        \A j, k \in 1..Len(t) : j # k => t[j] # t[k]}
Configs == {None, Some(DefaultConfig), Some(LessConfig)}

ReportInit ==
    /\ ScanIdle /\ WordIdle /\ LaterIdle /\ target_word = <<>>
    /\ dir \in Trees
    /\ config \in Configs
    /\ pc = "start"
    /\ all_files = <<>>
    /\ classes = <<>>
    /\ dynamic_patterns = {}
    /\ exact_results = <<>>
    /\ pattern_results = <<>>
    /\ report = None

notReport == <<scanVars, wordVars, target_word, laterVars>>

\* generate_report, line 65
Walk ==
    /\ pc = "start"
    /\ all_files' = walk_with_content_parallel(dir, config)
    /\ pc' = "walked"
    /\ UNCHANGED <<dir, config, classes, dynamic_patterns, exact_results,
                   pattern_results, report, notReport>>

\* generate_report, lines 66-69
ExtractClasses ==
    /\ pc = "walked"
    /\ classes' = extract_classes(filter_css_files(config, all_files))
    /\ pc' = "extracted"
    /\ UNCHANGED <<dir, config, all_files, dynamic_patterns, exact_results,
                   pattern_results, report, notReport>>

\* generate_report, line 72, and the start of the phase-1 batch
DetectPatterns ==
    /\ pc = "extracted"
    /\ dynamic_patterns' = detect_patterns(classes)
    /\ exact_results' = [k \in 1..Len(classes) |-> None]
    /\ pc' = "phase1"
    /\ UNCHANGED <<dir, config, all_files, classes, pattern_results, report, notReport>>

\* analyze_class_usage, lines 159-174: the phase-1 task of class k
ExactMatchTask(k) ==
    /\ pc = "phase1"
    /\ exact_results[k] = None
    /\ exact_results' = [exact_results EXCEPT ![k] =
            Some([class |-> classes[k],
                  is_unused |-> is_class_unused_exact(classes[k], all_files)])]
    /\ UNCHANGED <<dir, config, pc, all_files, classes, dynamic_patterns,
                   pattern_results, report, notReport>>

ExactResults == [k \in 1..Len(exact_results) |-> Unwrap(exact_results[k])]
PatternResults == [k \in 1..Len(pattern_results) |-> Unwrap(pattern_results[k])]

\* analyze_class_usage, lines 178-202: phase 1 has drained; the pattern
\* pass starts, or is skipped
SeparateExact ==
    /\ pc = "phase1"
    /\ \A k \in 1..Len(exact_results) : IsSome(exact_results[k])
    /\ IF runs_phase_2(ExactResults, dynamic_patterns)
       THEN /\ pattern_results' =
                   [k \in 1..Len(potentially_unused_classes(ExactResults)) |-> None]
            /\ pc' = "phase2"
       ELSE /\ pattern_results' = <<>>
            /\ pc' = "no phase2"
    /\ UNCHANGED <<dir, config, all_files, classes, dynamic_patterns, exact_results,
                   report, notReport>>

\* analyze_class_usage, lines 206-209: the phase-2 task of the k-th
\* potentially unused class
PatternTask(k) ==
    /\ pc = "phase2"
    /\ pattern_results[k] = None
    /\ LET class == potentially_unused_classes(ExactResults)[k]
       IN  pattern_results' = [pattern_results EXCEPT ![k] =
               Some([class |-> class,
                     is_used_via_pattern |->
                         is_class_unused_dynamic(class, all_files, dynamic_patterns)])]
    /\ UNCHANGED <<dir, config, pc, all_files, classes, dynamic_patterns,
                   exact_results, report, notReport>>

\* analyze_class_usage, lines 213-253, and generate_report, lines 77-82
Aggregate ==
    /\ \/ pc = "no phase2"
       \/ pc = "phase2" /\ \A k \in 1..Len(pattern_results) : IsSome(pattern_results[k])
    /\ report' = Some(build_report(classes, ExactResults, PatternResults, pc = "phase2"))
    /\ pc' = "done"
    /\ UNCHANGED <<dir, config, all_files, classes, dynamic_patterns, exact_results,
                   pattern_results, notReport>>

Next ==
    \/ Walk
    \/ ExtractClasses
    \/ DetectPatterns
    \/ \E k \in 1..Len(exact_results) : ExactMatchTask(k)
    \/ SeparateExact
    \/ \E k \in 1..Len(pattern_results) : PatternTask(k)
    \/ Aggregate
Spec == ReportInit /\ [][Next]_vars

(***************************************************************************)
(* find_exact_words applied to one content and one word                    *)
(***************************************************************************)
MaxContentLen == 4
MaxWordLen == 2
WordSigma == {"a", "-", " ", "U+00E9"}

Btn == <<"b", "t", "n">>
BtnPrimaryButton ==
    <<"b", "t", "n", "-", "p", "r", "i", "m", "a", "r", "y", " ",
      "b", "u", "t", "t", "o", "n">>
BtnPrimary == <<"b", "t", "n", " ", "p", "r", "i", "m", "a", "r", "y">>
MyBtnClass == <<"m", "y", "-", "b", "t", "n", "-", "c", "l", "a", "s", "s">>

WordInit ==
    /\ ReportIdle /\ ScanIdle /\ LaterIdle
    /\ content \in StringsUpTo(WordSigma, MaxContentLen)
                     \cup {BtnPrimaryButton, BtnPrimary, MyBtnClass}
    /\ target_word \in StringsUpTo(WordSigma, MaxWordLen) \cup {Btn}
    /\ found = None

FindExactWords ==
    /\ found = None
    /\ found' = Some(find_exact_words(content, target_word))
    /\ UNCHANGED <<reportVars, scanVars, content, target_word, laterVars>>

WordNext == FindExactWords
SpecWords == WordInit /\ [][WordNext]_vars

\* C10: find_exact_words(content, word) is true iff content holds word as a
\* whole token: an occurrence of word made only of alphanumerics, '_' and '-'
\* that starts at the beginning of content or right after a separator and
\* ends at the end of content or right before a separator (the empty word is
\* a token where two separators are adjacent or content starts or ends with
\* one, or content is empty); "btn" is not found in "btn-primary button" or
\* "my-btn-class" and is found in "btn primary".
IsTokenAt(s, i, w) ==
    /\ i + Len(w) - 1 <= Len(s)
    /\ SubSeq(s, i, i + Len(w) - 1) = w
    /\ \A k \in 1..Len(w) : ~IsSeparator(w[k])
    /\ (i = 1 \/ IsSeparator(s[i - 1]))
    /\ (i + Len(w) > Len(s) \/ IsSeparator(s[i + Len(w)]))
C10_ExactWordIsWholeToken ==
    IsSome(found) =>
        /\ Unwrap(found) = (\E i \in 1..(Len(content) + 1) : IsTokenAt(content, i, target_word))
        /\ (target_word = Btn /\ content \in {BtnPrimaryButton, MyBtnClass}
                => Unwrap(found) = FALSE)
        /\ (target_word = Btn /\ content = BtnPrimary => Unwrap(found) = TRUE)
\* A hyphen-joined part of a longer token was searched and not found.
C10_Witness ==
    /\ found = Some(FALSE)
    /\ target_word = <<"a">>
    /\ content = <<"a", "-", "a", " ">>
C10_WitnessBtn == found = Some(TRUE) /\ target_word = Btn /\ content = BtnPrimary

(***************************************************************************)
(* scan applied to one word and a list of files                            *)
(***************************************************************************)
MaxScanFiles == 2
MaxScanLen == 2
ScanSigma == {"a", ".", "U+00E9"}
ScanNames == <<"f1", "f2", "f3", "f4">>

\* The k-th entry: its extension, and whether it holds the content drawn or
\* is empty
ScanSlots == [ext : {"css", "less"}, holds : BOOLEAN]
ScanFile(k, slot, text) ==
    [path |-> [components |-> <<>>, name |-> ScanNames[k], ext |-> Some(slot.ext)],
     content |-> IF slot.holds THEN text ELSE <<>>]

ScanInit ==
    /\ ReportIdle /\ LaterIdle
    /\ found = None
    /\ scanner_config \in {None, Some(LessConfig)}
    /\ target_word \in StringsUpTo(ScanSigma, MaxScanLen)
    /\ content \in StringsUpTo(ScanSigma, MaxScanLen)
    /\ \E slots \in StringsUpTo(ScanSlots, MaxScanFiles) :
            files = [k \in 1..Len(slots) |-> ScanFile(k, slots[k], content)]
    /\ scan_result = None

Scan ==
    /\ scan_result = None
    /\ scan_result' = Some(scan(scanner_config, target_word, files))
    /\ UNCHANGED <<reportVars, wordVars, scanner_config, target_word, files, laterVars>>

ScanNext == Scan
SpecScan == ScanInit /\ [][ScanNext]_vars

\* The number of entries of sequence q equal to x
Count(q, x) == Cardinality({k \in 1..Len(q) : q[k] = x})
SeqRange(q) == {q[k] : k \in 1..Len(q)}

\* C7: every ScanResult has is_css_only = (css_files is not empty and
\* other_files is empty); a word found in no file gives is_css_only = FALSE.
C7_CssOnlyInvariant ==
    IsSome(scan_result) =>
        LET r == Unwrap(scan_result)
        IN  /\ r.is_css_only = (Len(r.css_files) > 0 /\ Len(r.other_files) = 0)
            /\ ((\A k \in 1..Len(files) : ~has_match(target_word, files[k].content))
                    => ~r.is_css_only)
\* A word found in no file was scanned for.
C7_Witness ==
    /\ IsSome(scan_result)
    /\ Len(files) = 2
    /\ Unwrap(scan_result).css_files = <<>>
    /\ Unwrap(scan_result).other_files = <<>>
    /\ ~Unwrap(scan_result).is_css_only

\* The match rule as the claim C9 words it: substring containment when the
\* word has a character outside [A-Za-z0-9_-], whole-token search otherwise
AsciiWordChar == AsciiLetter \cup AsciiDigit \cup {"_", "-"}
MatchesAsciiRule(word, text) ==
    IF \E k \in 1..Len(word) : word[k] \notin AsciiWordChar
    THEN str_contains(text, word)
    ELSE \E i \in 1..(Len(text) + 1) : IsTokenAt(text, i, word)
\* The rule with the alphanumerics of char::is_alphanumeric
MatchesUnicodeRule(word, text) ==
    IF \E k \in 1..Len(word) : ~(is_alphanumeric(word[k]) \/ word[k] \in {"_", "-"})
    THEN str_contains(text, word)
    ELSE \E i \in 1..(Len(text) + 1) : IsTokenAt(text, i, word)
\* Each entry appears in the result as often as it matches: once per
\* matching entry, never for a non-matching one
ResultListsEntries(Matches(_, _)) ==
    LET r == Unwrap(scan_result)
        listed == r.css_files \o r.other_files
    IN  /\ \A k \in 1..Len(files) :
              Count(listed, files[k].path) =
                  IF Matches(target_word, files[k].content) THEN 1 ELSE 0
        /\ SeqRange(listed) \subseteq {files[k].path : k \in 1..Len(files)}

\* C9 as stated: scan matches a file by substring containment when the word
\* has a character outside [A-Za-z0-9_-] and by the exact-word check
\* otherwise; a file is in the result iff it matches, once per entry.
C9_Original_AsciiRule ==
    IsSome(scan_result) => ResultListsEntries(MatchesAsciiRule)
\* C9 amended: scan matches a file by substring containment when the word
\* has a character that is not alphanumeric (char::is_alphanumeric, which
\* holds of letters and digits outside ASCII too), '_' or '-', and by the
\* exact-word check otherwise; a file is in the result iff it matches, once
\* per entry.
C9_UnicodeRule ==
    IsSome(scan_result) => ResultListsEntries(MatchesUnicodeRule)
\* A word with a special character matched one entry by substring, where no
\* token equals it, and the other entry did not match.
C9_Witness ==
    /\ IsSome(scan_result)
    /\ target_word = <<".">>
    /\ content = <<".", "a">>
    /\ Len(files) = 2
    /\ Len(Unwrap(scan_result).css_files) + Len(Unwrap(scan_result).other_files) = 1

(***************************************************************************)
(* The report                                                              *)
(***************************************************************************)
\* The files of the snapshot that the detector's rules make stylesheets:
\* those whose classes are extracted
IsStylesheetFile(f) ==
    \E k \in 1..Len(filter_css_files(config, all_files)) :
        filter_css_files(config, all_files)[k] = f
\* The (name, file) pairs declared in the stylesheets of the snapshot
DeclaredPairs ==
    LET declared == all_file_classes(filter_css_files(config, all_files))
    IN  {<<declared[k].name, declared[k].file>> : k \in 1..Len(declared)}
InList(cs, c) == \E k \in 1..Len(cs) : cs[k] = c

\* C1: in every report total_classes = len(unused_classes) +
\* len(used_classes), and it is the number of distinct (name, file) pairs
\* declared, whether or not phase 2 ran.
C1_TotalIsSum ==
    IsSome(report) =>
        LET r == Unwrap(report)
        IN  /\ r.total_classes = Len(r.unused_classes) + Len(r.used_classes)
            /\ r.total_classes = Cardinality(DeclaredPairs)
\* A report after a phase 2 that moved a class to used_classes and left
\* another unused.
C1_Witness ==
    /\ IsSome(report)
    /\ \E k \in 1..Len(pattern_results) : Unwrap(pattern_results[k]).is_used_via_pattern
    /\ Unwrap(report).unused_classes # <<>>
    /\ \E k \in 1..Len(exact_results) : ~Unwrap(exact_results[k]).is_unused

\* C2: every record of used_classes and unused_classes is exactly once in
\* by_file, under its own file and nowhere else, flagged is_unused = FALSE
\* for used_classes and TRUE for unused_classes; by_file holds nothing else.
EntriesFor(by_file, file, c) ==
    Cardinality({k \in 1..Len(by_file[file]) :
                    /\ by_file[file][k].class.name = c.name
                    /\ by_file[file][k].class.file = c.file})
ListedOnce(by_file, c, flag) ==
    /\ c.file \in DOMAIN by_file
    /\ \A file \in DOMAIN by_file :
          EntriesFor(by_file, file, c) = IF file = c.file THEN 1 ELSE 0
    /\ Count(by_file[c.file], [class |-> c, is_unused |-> flag]) = 1
C2_ByFilePartition ==
    IsSome(report) =>
        LET r == Unwrap(report)
        IN  /\ \A k \in 1..Len(r.used_classes) : ListedOnce(r.by_file, r.used_classes[k], FALSE)
            /\ \A k \in 1..Len(r.unused_classes) :
                  ListedOnce(r.by_file, r.unused_classes[k], TRUE)
            /\ \A file \in DOMAIN r.by_file : \A k \in 1..Len(r.by_file[file]) :
                  LET e == r.by_file[file][k]
                  IN  /\ e.class.file = file
                      /\ IF e.is_unused THEN InList(r.unused_classes, e.class)
                         ELSE InList(r.used_classes, e.class)
\* A report with two files in by_file, one of them holding a used and an
\* unused record.
C2_Witness ==
    /\ IsSome(report)
    /\ Cardinality(DOMAIN Unwrap(report).by_file) = 2
    /\ \E file \in DOMAIN Unwrap(report).by_file :
          \E j, k \in 1..Len(Unwrap(report).by_file[file]) :
              /\ Unwrap(report).by_file[file][j].is_unused
              /\ ~Unwrap(report).by_file[file][k].is_unused

\* C3: phase 1 marks a class unused iff at least one stylesheet file and no
\* non-stylesheet file of the snapshot contains its name, a stylesheet being
\* a file whose classes are extracted; a class whose only occurrences
\* outside its declaring file are in other stylesheet files is marked
\* unused.
C3_UnusedIffCssOnly ==
    \A k \in 1..Len(exact_results) :
        IsSome(exact_results[k]) =>
            LET c == classes[k]
                Holds(f) == has_match(c.name, f.content)
                snapshot == SeqRange(all_files)
            IN  /\ Unwrap(exact_results[k]).is_unused =
                      (/\ \E f \in snapshot : IsStylesheetFile(f) /\ Holds(f)
                       /\ \A f \in snapshot : Holds(f) => IsStylesheetFile(f))
                /\ (/\ \E f \in snapshot : f.path # c.file /\ Holds(f)
                    /\ \A f \in snapshot : (f.path # c.file /\ Holds(f)) => IsStylesheetFile(f)
                    /\ \E f \in snapshot : f.path = c.file /\ Holds(f))
                       => Unwrap(exact_results[k]).is_unused

\* C4: a class that phase 1 marks used is contained in a non-stylesheet
\* file of the snapshot: other_files of its scan is not empty.
C4_UsedHasOtherFile ==
    \A k \in 1..Len(exact_results) :
        (IsSome(exact_results[k]) /\ ~Unwrap(exact_results[k]).is_unused) =>
            phase1_scan(classes[k], all_files).other_files # <<>>

\* C5: a class ends in unused_classes iff phase 1 marked it unused and no
\* inferred pattern that lists its name has a usage signature in a file of
\* the snapshot; a class phase 1 marked used ends in used_classes, and
\* phase 2 examines only the classes phase 1 marked unused.
UsedThroughPattern(c) ==
    \E pattern \in dynamic_patterns :
        /\ c.name \in SeqRange(pattern.matching_classes)
        /\ \E f \in SeqRange(all_files) : find_pattern_usage(f.content, pattern)
C5_PhaseTwoDecides ==
    /\ IsSome(report) =>
          \A k \in 1..Len(classes) :
              LET c == classes[k]
                  unused_1 == Unwrap(exact_results[k]).is_unused
                  r == Unwrap(report)
              IN  /\ InList(r.unused_classes, c) = (unused_1 /\ ~UsedThroughPattern(c))
                  /\ InList(r.used_classes, c) = ~InList(r.unused_classes, c)
                  /\ ~unused_1 => InList(r.used_classes, c)
    /\ \A k \in 1..Len(pattern_results) :
          IsSome(pattern_results[k]) =>
              \E j \in 1..Len(classes) :
                  /\ classes[j] = Unwrap(pattern_results[k]).class
                  /\ Unwrap(exact_results[j]).is_unused
\* A report where phase 2 made one class used, left one unused that no
\* pattern lists, and phase 1 had marked a third used.
C5_Witness ==
    /\ IsSome(report)
    /\ \E i, j, k \in 1..Len(classes) :
          /\ ~Unwrap(exact_results[i]).is_unused
          /\ Unwrap(exact_results[j]).is_unused /\ UsedThroughPattern(classes[j])
          /\ InList(Unwrap(report).unused_classes, classes[k])
          /\ \A pattern \in dynamic_patterns :
                classes[k].name \notin SeqRange(pattern.matching_classes)
          /\ dynamic_patterns # {}

\* C6: for style.css holding .header{}.footer{} and index.html holding
\* <div class="header">, the report has total_classes = 2, used_classes =
\* [header] and unused_classes = [footer].
Header == <<"h", "e", "a", "d", "e", "r">>
Footer == <<"f", "o", "o", "t", "e", "r">>
C6_EndToEnd ==
    (/\ IsSome(report)
     /\ dir \in {<<StyleCss, IndexHtml>>, <<IndexHtml, StyleCss>>}
     /\ config \in {None, Some(DefaultConfig)}) =>
        LET r == Unwrap(report)
        IN  /\ r.total_classes = 2
            /\ r.used_classes = <<[name |-> Header, file |-> StyleCss.path, line |-> 1]>>
            /\ r.unused_classes = <<[name |-> Footer, file |-> StyleCss.path, line |-> 1]>>
\* The report of that directory, without configuration.
C6_Witness ==
    /\ IsSome(report)
    /\ dir = <<StyleCss, IndexHtml>>
    /\ config = None

\* C8: in the phase-1 scans too, a matching file is in css_files iff its
\* extension is one of the configured css_extensions (css and scss without
\* configuration), and in other_files otherwise.
ConfiguredCssExtensions ==
    IF IsSome(config) THEN Unwrap(config).css_extensions ELSE {"css", "scss"}
C8_ScanUsesConfiguredExtensions ==
    \A k \in 1..Len(exact_results) :
        IsSome(exact_results[k]) =>
            LET r == phase1_scan(classes[k], all_files)
            IN  \A f \in SeqRange(all_files) :
                    has_match(classes[k].name, f.content) =>
                        LET stylesheet == /\ IsSome(f.path.ext)
                                          /\ Unwrap(f.path.ext) \in ConfiguredCssExtensions
                        IN  /\ InList(r.css_files, f.path) = stylesheet
                            /\ InList(r.other_files, f.path) = ~stylesheet

(***************************************************************************)
(* The class extraction and the pattern inference on stylesheet files      *)
(***************************************************************************)
MaxLines == 2

\* The lines a stylesheet is made of
LineAb == <<".", "a", "b", "{", "}">>
LineTA == <<".", "t", "-", "a", "{", "}">>
\* two selectors, the second of one letter: .t-b.a{}
LineTBA == <<".", "t", "-", "b", ".", "a", "{", "}">>
\* a comment: // .cd
LineComment == <<"/", "/", " ", ".", "c", "d">>
\* a letter outside ASCII after the name, and a selector that starts with a
\* digit: .ab(e-acute) .9
LineUni == <<".", "a", "b", "U+00E9", " ", ".", "9">>
LineUniverse == {LineAb, LineTA, LineTBA, LineComment, LineUni}

\* The lines joined by line feeds
RECURSIVE JoinLines(_)
JoinLines(ls) ==
    IF ls = <<>> THEN <<>>
    ELSE IF Len(ls) = 1 THEN ls[1]
    ELSE ls[1] \o <<"\n">> \o JoinLines(Tail(ls))
StylesheetTexts == {JoinLines(ls) : ls \in StringsUpTo(LineUniverse, MaxLines)}

ACssPath == [components |-> <<".">>, name |-> "a.css", ext |-> Some("css")]
BScssPath == [components |-> <<".">>, name |-> "b.scss", ext |-> Some("scss")]

ExtractInit ==
    /\ ReportIdle /\ ScanIdle /\ WordIdle /\ WalkIdle /\ DetectIdle /\ UsageIdle
    /\ ProcessIdle /\ MoreIdle /\ target_word = <<>>
    /\ \E a, b \in StylesheetTexts :
          css_files_with_content \in
              { <<[path |-> ACssPath, content |-> a]>>,
                <<[path |-> ACssPath, content |-> a], [path |-> BScssPath, content |-> b]>> }
    /\ file_tasks = [k \in 1..Len(css_files_with_content) |-> None]
    /\ extracted = None
    /\ inferred = None

\* extract_classes_parallel, lines 96-117: the closure of file k, run by
\* whichever thread takes it
FileTask(k) ==
    /\ extracted = None
    /\ file_tasks[k] = None
    /\ file_tasks' = [file_tasks EXCEPT ![k] = Some(file_classes(css_files_with_content[k]))]
    /\ UNCHANGED <<reportVars, scanVars, wordVars, target_word, walkVars, detectVars, usageVars,
                   processVars, moreVars,
                   css_files_with_content, extracted, inferred>>

\* The records of the closures, concatenated in the order of the files
RECURSIVE CollectTasks(_)
CollectTasks(tasks) ==
    IF tasks = <<>> THEN <<>> ELSE Unwrap(Head(tasks)) \o CollectTasks(Tail(tasks))

\* extract_classes_parallel, lines 118-127: collect, then deduplicate
CollectClasses ==
    /\ extracted = None
    /\ \A k \in 1..Len(file_tasks) : IsSome(file_tasks[k])
    /\ extracted' = Some(deduplicate_classes(CollectTasks(file_tasks)))
    /\ UNCHANGED <<reportVars, scanVars, wordVars, target_word, walkVars, detectVars, usageVars,
                   processVars, moreVars,
                   css_files_with_content, file_tasks, inferred>>

\* generate_report, line 72
InferPatterns ==
    /\ IsSome(extracted)
    /\ inferred = None
    /\ inferred' = Some(detect_patterns(Unwrap(extracted)))
    /\ UNCHANGED <<reportVars, scanVars, wordVars, target_word, walkVars, detectVars, usageVars,
                   processVars, moreVars,
                   css_files_with_content, file_tasks, extracted>>

ExtractNext ==
    \/ \E k \in 1..Len(file_tasks) : FileTask(k)
    \/ CollectClasses
    \/ InferPatterns
SpecExtract == ExtractInit /\ [][ExtractNext]_vars

\* The class-selector candidates of a line: after each '.' that an ASCII
\* letter follows, the longest run of [a-zA-Z0-9_-]
CandidateAt(line, i) ==
    LET j == CHOOSE j \in (i + 1)..Len(line) :
                 /\ \A m \in (i + 1)..j : line[m] \in AsciiWordChar
                 /\ (j = Len(line) \/ line[j + 1] \notin AsciiWordChar)
    IN  SubSeq(line, i + 1, j)
CandidatesOfLine(line) ==
    {CandidateAt(line, i) : i \in {m \in 1..(Len(line) - 1) :
                                      line[m] = "." /\ line[m + 1] \in AsciiLetter}}
\* The lines of a text on which name is a candidate, ignored lines left out
LinesWithCandidate(text, name) ==
    {l \in 1..Len(lines(text)) :
        ~is_ignored_line(lines(text)[l]) /\ name \in CandidatesOfLine(lines(text)[l])}
CandidatesOfText(text) ==
    UNION {IF is_ignored_line(lines(text)[l]) THEN {} ELSE CandidatesOfLine(lines(text)[l]) :
              l \in 1..Len(lines(text))}
SetMin(S) == CHOOSE x \in S : \A y \in S : x <= y
RecordsOf(cs, name, path) == {k \in 1..Len(cs) : cs[k].name = name /\ cs[k].file = path}

\* C11: no two records of the output share a (name, file) pair; a name
\* declared in two files has a record for each; the record of a pair has the
\* smallest line of the file on which the name is matched; whatever the
\* order in which the threads take the files.
C11_FirstOccurrencePerFile ==
    IsSome(extracted) =>
        LET cs == Unwrap(extracted)
        IN  /\ \A j, k \in 1..Len(cs) :
                  (cs[j].name = cs[k].name /\ cs[j].file = cs[k].file) => j = k
            /\ \A f \in SeqRange(css_files_with_content) :
                  \A name \in {n \in CandidatesOfText(f.content) : is_valid_class_name(n)} :
                      /\ Cardinality(RecordsOf(cs, name, f.path)) = 1
                      /\ \A k \in RecordsOf(cs, name, f.path) :
                            cs[k].line = SetMin(LinesWithCandidate(f.content, name))
\* Both files declare ab: the first on its lines 1 and 2, the second on its
\* line 2, after a comment; one record is kept for each file.
C11_Witness ==
    /\ IsSome(extracted)
    /\ Len(css_files_with_content) = 2
    /\ css_files_with_content[1].content = JoinLines(<<LineAb, LineAb>>)
    /\ css_files_with_content[2].content = JoinLines(<<LineComment, LineAb>>)
    /\ Unwrap(extracted) =
           <<[name |-> <<"a", "b">>, file |-> ACssPath, line |-> 1],
             [name |-> <<"a", "b">>, file |-> BScssPath, line |-> 2]>>

\* C12: a candidate captured on a non-ignored line becomes a class record
\* iff its length is at least 2 and it is not made of digits only; every
\* name of the output starts with an ASCII letter, has at least 2 characters
\* and holds only [a-zA-Z0-9_-]; the same for the sequential extraction.
AllDigits(name) == \A k \in 1..Len(name) : name[k] \in AsciiDigit
WellFormedNames(cs) ==
    \A k \in 1..Len(cs) :
        /\ Len(cs[k].name) >= 2
        /\ cs[k].name[1] \in AsciiLetter
        /\ \A m \in 1..Len(cs[k].name) : cs[k].name[m] \in AsciiWordChar
CandidatesKeptIffValid(cs) ==
    /\ \A f \in SeqRange(css_files_with_content) :
          \A name \in CandidatesOfText(f.content) :
              (RecordsOf(cs, name, f.path) # {}) = (Len(name) >= 2 /\ ~AllDigits(name))
    /\ \A k \in 1..Len(cs) :
          \E f \in SeqRange(css_files_with_content) :
              f.path = cs[k].file /\ cs[k].name \in CandidatesOfText(f.content)
C12_ValidNamesOnly ==
    IsSome(extracted) =>
        /\ CandidatesKeptIffValid(Unwrap(extracted))
        /\ WellFormedNames(Unwrap(extracted))
        /\ CandidatesKeptIffValid(CssParser_extract_classes(css_files_with_content))
        /\ WellFormedNames(CssParser_extract_classes(css_files_with_content))
\* A file with the candidates t-b and a (one letter), and with ab before a
\* letter outside ASCII: t-b and ab are records, a is not.
C12_Witness ==
    /\ IsSome(extracted)
    /\ Len(css_files_with_content) = 1
    /\ css_files_with_content[1].content = JoinLines(<<LineTBA, LineUni>>)
    /\ Unwrap(extracted) =
           <<[name |-> <<"t", "-", "b">>, file |-> ACssPath, line |-> 1],
             [name |-> <<"a", "b">>, file |-> ACssPath, line |-> 2]>>

(***************************************************************************)
(* The walk of a directory tree and the two ways of reading its files      *)
(***************************************************************************)
MaxEntries == 2

Entry(components, name, ext, is_file, readable) ==
    [path |-> [components |-> components, name |-> name, ext |-> ext],
     content |-> <<name>>, is_file |-> is_file, readable |-> readable]
EntryUniverse ==
    { Entry(<<".">>, "index.html", Some("html"), TRUE, TRUE),
      Entry(<<".", "node_modules">>, "lib.css", Some("css"), TRUE, TRUE),
      Entry(<<".", "node_modules_backup">>, "x.js", Some("js"), TRUE, TRUE),
      Entry(<<".">>, "Makefile", None, TRUE, TRUE),
      Entry(<<".">>, "pkg.css", Some("css"), FALSE, FALSE),
      Entry(<<".">>, "notes.txt", Some("txt"), TRUE, TRUE),
      Entry(<<".">>, "bin.css", Some("css"), TRUE, FALSE),
      Entry(<<".">>, "theme.less", Some("less"), TRUE, TRUE) }
\* The walkers the program builds: FileWalker::new alone (find_word_gui,
\* and generate_report without configuration), with_extensions of css and
\* scss (CssParser), with_config (the command line)
WalkerFilters ==
    {NewFilter, ExtensionsFilter({"css", "scss"}), ConfigFilter(DefaultConfig),
     ConfigFilter(LessConfig)}

WalkInit ==
    /\ ReportIdle /\ ScanIdle /\ WordIdle /\ ExtractIdle /\ DetectIdle /\ UsageIdle
    /\ ProcessIdle /\ MoreIdle /\ target_word = <<>>
    /\ entries \in {es \in StringsUpTo(EntryUniverse, MaxEntries) :
                       \A j, k \in 1..Len(es) : j # k => es[j] # es[k]}
    /\ \E filter \in WalkerFilters : file_filter = Some(filter)
    /\ seq_result = None
    /\ par_files = None
    /\ read_tasks = <<>>
    /\ par_result = None

notWalk == <<reportVars, scanVars, wordVars, target_word, extractVars, detectVars, usageVars,
            processVars, moreVars>>

\* FileWalker::walk_with_content
WalkWithContent ==
    /\ seq_result = None
    /\ seq_result' = Some(walk_with_content(entries, Unwrap(file_filter)))
    /\ UNCHANGED <<entries, file_filter, par_files, read_tasks, par_result, notWalk>>

\* walk_with_content_parallel, lines 96-99: the walk, and the batch handed
\* to the processor
ParallelWalk ==
    /\ par_files = None
    /\ par_files' = Some(FileWalker_walk(entries, Unwrap(file_filter)))
    /\ read_tasks' = [k \in 1..Len(FileWalker_walk(entries, Unwrap(file_filter))) |-> None]
    /\ UNCHANGED <<entries, file_filter, seq_result, par_result, notWalk>>

\* The read of file k, by whichever thread takes it
ReadTask(k) ==
    /\ IsSome(par_files)
    /\ par_result = None
    /\ read_tasks[k] = None
    /\ read_tasks' = [read_tasks EXCEPT ![k] = Some(read_worker(Unwrap(par_files)[k]))]
    /\ UNCHANGED <<entries, file_filter, seq_result, par_files, par_result, notWalk>>

\* walk_with_content_parallel, lines 101-112: the batch has drained, or a
\* worker has failed and the collect gives up on the others
ParallelCollect ==
    /\ IsSome(par_files)
    /\ par_result = None
    /\ \/ \A k \in 1..Len(read_tasks) : IsSome(read_tasks[k])
       \/ \E k \in 1..Len(read_tasks) : IsSome(read_tasks[k]) /\ ~Unwrap(read_tasks[k]).ok
    /\ par_result' = Some(parallel_result(read_tasks))
    /\ UNCHANGED <<entries, file_filter, seq_result, par_files, read_tasks, notWalk>>

WalkNext ==
    \/ WalkWithContent
    \/ ParallelWalk
    \/ \E k \in 1..Len(read_tasks) : ReadTask(k)
    \/ ParallelCollect
SpecWalk == WalkInit /\ [][WalkNext]_vars

\* C13: with FilterRules, a path is in the walk result iff it is a regular
\* file, no component of the path equals an excluded directory name
\* (node_modules_backup is not excluded by node_modules), and its extension
\* is in include_extensions or css_extensions; a file without extension is
\* never included.
IncludedByRules(cfg, e) ==
    /\ e.is_file
    /\ \A k \in 1..Len(e.path.components) : e.path.components[k] \notin cfg.exclude_dirs
    /\ e.path.name \notin cfg.exclude_dirs
    /\ e.path.ext # None
    /\ \E ext \in cfg.include_extensions \cup cfg.css_extensions : e.path.ext = Some(ext)
C13_WalkWithRules ==
    (IsSome(par_files) /\ Unwrap(file_filter).kind = "with_config") =>
        /\ \A e \in SeqRange(entries) :
              Count(Unwrap(par_files), e) =
                  IF IncludedByRules(Unwrap(Unwrap(file_filter).config), e) THEN 1 ELSE 0
        /\ SeqRange(Unwrap(par_files)) \subseteq SeqRange(entries)
        /\ \A e \in SeqRange(Unwrap(par_files)) : e.path.ext # None
\* The tree holds node_modules/lib.css and node_modules_backup/x.js: the walk
\* with the default rules gives the second alone.
C13_Witness ==
    /\ IsSome(par_files)
    /\ file_filter = Some(ConfigFilter(DefaultConfig))
    /\ entries = <<Entry(<<".", "node_modules">>, "lib.css", Some("css"), TRUE, TRUE),
                   Entry(<<".", "node_modules_backup">>, "x.js", Some("js"), TRUE, TRUE)>>
    /\ Unwrap(par_files) =
           <<Entry(<<".", "node_modules_backup">>, "x.js", Some("js"), TRUE, TRUE)>>

\* C14: a file under a directory component named node_modules is in no walk
\* result, whatever its extension, for every walker the program builds (with
\* a configuration, without one as in analyze_directory_gui and
\* find_word_gui, and with the extension list of the class extractor).
UnderNodeModules(path) ==
    \E k \in 1..Len(path.components) : path.components[k] = "node_modules"
C14_NodeModulesNeverWalked ==
    /\ IsSome(par_result) =>
          \A pair \in SeqRange(Unwrap(par_result).value) : ~UnderNodeModules(pair.path)
    /\ IsSome(seq_result) =>
          \A pair \in SeqRange(Unwrap(seq_result).value) : ~UnderNodeModules(pair.path)

ReadablePairs ==
    {[path |-> e.path, content |-> e.content] :
        e \in {x \in SeqRange(entries) :
                  x.is_file /\ x.readable /\ ApplyFilter(Unwrap(file_filter), x.path)}}
MaxNames == 3

TypeFire == <<"t", "y", "p", "e", "-", "f", "i", "r", "e">>
TypeWater == <<"t", "y", "p", "e", "-", "w", "a", "t", "e", "r">>
TypeGrass == <<"t", "y", "p", "e", "-", "g", "r", "a", "s", "s">>
NameUniverse ==
    { <<"a">>,
      <<"b">>,
      <<"a", "-", "b">>,
      <<"a", "-", "c">>,
      <<"-", "a">>,
      <<"-", "b">>,
      <<"a", "b", "-", "x", "-", "c">>,
      <<"a", "b", "-", "y", "-", "c">>,
      <<"a", "_", "b">>,
      <<"a", "-", "b", "_", "c">>,
      <<"a", "_", "b", "-", "c">>,
      <<"a", "-", "b", "a", "b">>,
      <<"U+00E9", "-", "a">>,
      <<"U+00E9", "-", "b">>,
      TypeFire, TypeWater, TypeGrass }

DetectInit ==
    /\ ReportIdle /\ ScanIdle /\ WordIdle /\ ExtractIdle /\ WalkIdle /\ UsageIdle
    /\ ProcessIdle /\ MoreIdle /\ target_word = <<>>
    /\ given_names \in StringsUpTo(NameUniverse, MaxNames)
    /\ detected = None

DetectDynamicPatterns ==
    /\ detected = None
    /\ detected' = Some(detect_dynamic_patterns(given_names))
    /\ UNCHANGED <<reportVars, scanVars, wordVars, target_word, extractVars, walkVars,
                   usageVars, processVars, moreVars, given_names>>

DetectNext == DetectDynamicPatterns
SpecDetect == DetectInit /\ [][DetectNext]_vars

\* The longest common prefix and the longest common suffix of the names of
\* a group
IsCommonPrefix(p, group) == \A k \in 1..Len(group) : starts_with(group[k], p)
IsCommonSuffix(x, group) ==
    \A k \in 1..Len(group) :
        /\ Len(x) <= Len(group[k])
        /\ SubSeq(group[k], Len(group[k]) - Len(x) + 1, Len(group[k])) = x
LongestCommonPrefix(group) ==
    CHOOSE p \in {SubSeq(group[1], 1, n) : n \in 0..Len(group[1])} :
        /\ IsCommonPrefix(p, group)
        /\ \A n \in (Len(p) + 1)..Len(group[1]) : ~IsCommonPrefix(SubSeq(group[1], 1, n), group)
LongestCommonSuffix(group) ==
    CHOOSE x \in {SubSeq(group[1], Len(group[1]) - n + 1, Len(group[1])) : n \in 0..Len(group[1])} :
        /\ IsCommonSuffix(x, group)
        /\ \A n \in (Len(x) + 1)..Len(group[1]) :
              ~IsCommonSuffix(SubSeq(group[1], Len(group[1]) - n + 1, Len(group[1])), group)
\* The key groups of a list of names: for each key, the names that have it,
\* in the order of the list
KeyGroups(names) ==
    {NamesWithKey(names, Unwrap(extract_pattern_key(names[k]))) :
        k \in {j \in 1..Len(names) : IsSome(extract_pattern_key(names[j]))}}
PatternOfGroup(group) ==
    [prefix |-> LongestCommonPrefix(group), suffix |-> LongestCommonSuffix(group),
     pattern |-> LongestCommonPrefix(group) \o <<"*">> \o LongestCommonSuffix(group),
     matching_classes |-> group]

Positions(name, c) == {i \in 1..Len(name) : name[i] = c}
Least(S) == CHOOSE x \in S : \A y \in S : x <= y
Greatest(S) == CHOOSE x \in S : \A y \in S : x >= y
\* The key of a name taken at the occurrences of the character c
KeyAt(name, c) ==
    LET first == Least(Positions(name, c))
        last == Greatest(Positions(name, c))
    IN  SubSeq(name, 1, first)
            \o (IF last # first THEN SubSeq(name, last, Len(name)) ELSE <<>>)
\* The separator that comes first in the name
FirstSeparatorInName(name) == name[Least(Positions(name, "-") \cup Positions(name, "_"))]
HasSeparator(name) == Positions(name, "-") \cup Positions(name, "_") # {}
\* The separator tried first: '-' when the name holds one, '_' otherwise
PreferredSeparator(name) == IF Positions(name, "-") # {} THEN "-" ELSE "_"
Members(p) == {p.matching_classes[m] : m \in 1..Len(p.matching_classes)}
GivenNames == {given_names[k] : k \in 1..Len(given_names)}
\* The patterns group the names by the key that separator_of gives
GroupedBy(patterns, key_of(_)) ==
    \A p \in patterns :
        \E key \in {key_of(n) : n \in Members(p)} :
            Members(p) = {n \in GivenNames : HasSeparator(n) /\ key_of(n) = key}

\* C25 as stated: the grouping key of a name that contains a separator is the
\* substring up to and including the first occurrence of a separator
\* character ('-' or '_', whichever comes first in the name), followed by the
\* substring starting at the last occurrence of that separator when that is
\* at a different position; a name with neither has no key and is in no
\* pattern.
C25_Original_FirstInName ==
    IsSome(detected) =>
        /\ \A n \in GivenNames :
              extract_pattern_key(n) =
                  IF HasSeparator(n) THEN Some(KeyAt(n, FirstSeparatorInName(n))) ELSE None
        /\ \A p \in Unwrap(detected) : \A n \in Members(p) : HasSeparator(n)

\* C25: the grouping key of a name is taken at '-' when the name holds a '-',
\* and at '_' only when it holds no '-': the substring up to and including
\* the first occurrence of that character, followed by the substring starting
\* at its last occurrence when that is at a different position; a name with
\* neither has no key and is in no pattern; the patterns group the names by
\* that key.
C25_KeyAtDashBeforeUnderscore ==
    IsSome(detected) =>
        /\ \A n \in GivenNames :
              extract_pattern_key(n) =
                  IF HasSeparator(n) THEN Some(KeyAt(n, PreferredSeparator(n))) ELSE None
        /\ \A p \in Unwrap(detected) : \A n \in Members(p) : HasSeparator(n)
        /\ LET key_of(n) == KeyAt(n, PreferredSeparator(n))
           IN  GroupedBy(Unwrap(detected), key_of)
\* a_b and a_b-c: the second has the key a_b-, not a_, and no pattern joins
\* them.
C25_Witness ==
    /\ given_names = << <<"a", "_", "b">>, <<"a", "_", "b", "-", "c">> >>
    /\ detected = Some({})
    /\ extract_pattern_key(given_names[2]) = Some(<<"a", "_", "b", "-">>)

ends_with(s, x) == Len(x) <= Len(s) /\ SubSeq(s, Len(s) - Len(x) + 1, Len(s)) = x

\* C27: for every pattern emitted by detect_dynamic_patterns each name in
\* matching_classes starts with prefix, ends with suffix and has length at
\* least len(prefix) + len(suffix): prefix and suffix do not overlap inside a
\* member, and every member matches prefix*suffix.
C27_MembersMatchPattern ==
    IsSome(detected) =>
        \A p \in Unwrap(detected) :
            \A n \in Members(p) :
                /\ starts_with(n, p.prefix)
                /\ ends_with(n, p.suffix)
                /\ Len(n) >= Len(p.prefix) + Len(p.suffix)

\* C18: every pattern inferred during generate_report covers at least two
\* distinct class names, for any set of stylesheet files, the same name
\* declared in several files included.
C18_PatternCoversTwoNames ==
    IsSome(inferred) =>
        \A pattern \in Unwrap(inferred) :
            Cardinality(SeqRange(pattern.matching_classes)) >= 2

(***************************************************************************)
(* find_pattern_usage applied to one content and one pattern               *)
(***************************************************************************)
MaxUsageLen == 4
UsageSigma == {"p", "$", "{", "}", "'", "x"}

\* (backtick)type-${pokemonType}(backtick)
TemplateLiteralText ==
    <<"BACKTICK", "t", "y", "p", "e", "-", "$", "{", "p", "o", "k", "e", "m", "o", "n", "T", "y", "p", "e", "}", "BACKTICK">>
\* Longer contents: concatenations, interpolations that hold a brace or a
\* line feed, and near misses
UsageSnippets ==
    { <<"'", "p", "'", " ", "+", " ", "x">>,
      <<"'", "p", "'", "+", "x", "+", "'", "y", "'">>,
      <<"'", "p", "'", " ", "+", " ", "x", " ", "+", " ", "'", "x", "'">>,
      <<"\"", "p", "$", "{", "a", "}", "b", "}", "x", "\"">>,
      <<"\"", "p", "$", "{", "a", "}", "\n", "}", "x", "\"">>,
      <<"'", "p", "$", "{", "a", "\n", "b", "}", "'">>,
      <<"'", "p", "'", " ", "+">>,
      <<"'", "p", "'", "x">>,
      <<"p", " ", "$", "{", "}">>,
      <<"\"", "p", "\"", "\n", "+", "\n", "_">>,
      TemplateLiteralText }

Pattern(prefix, suffix) ==
    [prefix |-> prefix, suffix |-> suffix, pattern |-> prefix \o <<"*">> \o suffix,
     matching_classes |-> <<>>]
TypePattern == Pattern(<<"t", "y", "p", "e", "-">>, <<>>)
UsagePatterns == {Pattern(<<"p">>, <<>>), Pattern(<<"p">>, <<"x">>), TypePattern}

UsageInit ==
    /\ ReportIdle /\ ScanIdle /\ WordIdle /\ ExtractIdle /\ WalkIdle /\ DetectIdle
    /\ ProcessIdle /\ MoreIdle /\ target_word = <<>>
    /\ usage_content \in StringsUpTo(UsageSigma, MaxUsageLen) \cup UsageSnippets
    /\ \E pattern \in UsagePatterns : usage_pattern = Some(pattern)
    /\ usage_found = None

FindPatternUsage ==
    /\ usage_found = None
    /\ usage_found' = Some(find_pattern_usage(usage_content, Unwrap(usage_pattern)))
    /\ UNCHANGED <<reportVars, scanVars, wordVars, target_word, extractVars, walkVars,
                   detectVars, processVars, moreVars, usage_content,
                   usage_pattern>>

UsageNext == FindPatternUsage
SpecUsage == UsageInit /\ [][UsageNext]_vars

\* The forms of usage, stated on the positions of the content. lit occurs
\* in t at position i:
HasAt(t, i, lit) == i >= 1 /\ i + Len(lit) - 1 <= Len(t) /\ SubSeq(t, i, i + Len(lit) - 1) = lit
\* the characters of t at positions a..b are all in set
AllIn(t, a, b, set) == \A m \in a..b : t[m] \in set
CharAt(t, i, set) == i >= 1 /\ i <= Len(t) /\ t[i] \in set
\* prefix opening ... } suffix, where ... holds no character of stop
Interpolated(t, i, prefix, opening, stop, suffix) ==
    /\ HasAt(t, i, prefix \o opening)
    /\ \E j \in (i + Len(prefix) + Len(opening))..Len(t) :
          /\ t[j] = "}"
          /\ AllIn(t, i + Len(prefix) + Len(opening), j - 1, Char \ stop)
          /\ HasAt(t, j + 1, suffix)
\* the same between quotes
QuotedInterpolated(t, i, prefix, stop, suffix) ==
    /\ CharAt(t, i, Quote)
    /\ HasAt(t, i + 1, prefix \o <<"$", "{">>)
    /\ \E j \in (i + Len(prefix) + 3)..Len(t) :
          /\ t[j] = "}"
          /\ AllIn(t, i + Len(prefix) + 3, j - 1, Char \ stop)
          /\ HasAt(t, j + 1, suffix)
          /\ CharAt(t, j + 1 + Len(suffix), Quote)
\* prefix, then a segment between two of ' and backtick, then suffix
QuotedSegment(t, i, prefix, suffix) ==
    /\ HasAt(t, i, prefix)
    /\ CharAt(t, i + Len(prefix), {"'", "BACKTICK"})
    /\ \E j \in (i + Len(prefix) + 1)..Len(t) :
          /\ t[j] \in {"'", "BACKTICK"}
          /\ AllIn(t, i + Len(prefix) + 1, j - 1, Char \ {"'", "BACKTICK"})
          /\ HasAt(t, j + 1, suffix)
\* spaces, a plus sign, spaces, from position a; the position after them
AfterPlus(t, a) ==
    {c \in (a + 1)..(Len(t) + 1) :
        \E b \in a..(c - 1) :
            t[b] = "+" /\ AllIn(t, a, b - 1, Whitespace) /\ AllIn(t, b + 1, c - 1, Whitespace)}
\* quoted prefix + identifier: the positions after the identifier
AfterIdentifier(t, i, prefix) ==
    IF CharAt(t, i, Quote) /\ HasAt(t, i + 1, prefix) /\ CharAt(t, i + 1 + Len(prefix), Quote)
    THEN {d \in 1..(Len(t) + 1) :
             \E c \in AfterPlus(t, i + 2 + Len(prefix)) : c < d /\ AllIn(t, c, d - 1, RegexWord)}
    ELSE {}
ConcatenatedWithIdentifier(t, i, prefix) == AfterIdentifier(t, i, prefix) # {}
ConcatenatedWithSuffix(t, i, prefix, suffix) ==
    \E d \in AfterIdentifier(t, i, prefix) :
        \E f \in AfterPlus(t, d) :
            CharAt(t, f, Quote) /\ HasAt(t, f + 1, suffix) /\ CharAt(t, f + 1 + Len(suffix), Quote)
MatchesSomeForm(t, prefix, suffix) ==
    \E i \in 1..Len(t) :
        \/ Interpolated(t, i, prefix, <<"$", "{">>, {"}"}, suffix)
        \/ Interpolated(t, i, prefix, <<"{">>, {"}"}, suffix)
        \/ QuotedSegment(t, i, prefix, suffix)
        \/ QuotedInterpolated(t, i, prefix, {"\n"}, suffix)
        \/ QuotedInterpolated(t, i, prefix, {"}"}, suffix)
        \/ ConcatenatedWithSuffix(t, i, prefix, suffix)
        \/ ConcatenatedWithIdentifier(t, i, prefix)

\* C19: find_pattern_usage is true iff the content matches one of the forms
\* prefix${...}suffix, prefix{...}suffix, prefix with a quoted segment and
\* suffix, quoted prefix${...}suffix, quoted prefix + identifier + quoted
\* suffix, quoted prefix + identifier; for prefix type- and empty suffix the
\* template literal type-${pokemonType} is usage.
C19_UsageForms ==
    IsSome(usage_found) =>
        /\ Unwrap(usage_found) =
              MatchesSomeForm(usage_content, Unwrap(usage_pattern).prefix,
                              Unwrap(usage_pattern).suffix)
        /\ (usage_content = TemplateLiteralText /\ usage_pattern = Some(TypePattern))
              => Unwrap(usage_found)
\* The template literal of the type- pattern was found.
C19_Witness ==
    /\ usage_found = Some(TRUE)
    /\ usage_content = TemplateLiteralText
    /\ usage_pattern = Some(TypePattern)

(***************************************************************************)
(* ParallelProcessor::process applied to a list of items                   *)
(***************************************************************************)
MaxItems == 3
MaxThreads == 2

\* An item and what the worker makes of it: a value, or a failure
Item(v, fails) == [v |-> v, fails |-> fails]
ItemUniverse == {Item(1, FALSE), Item(2, FALSE), Item(3, TRUE)}
\* The processor argument: a function of the item alone
processor(item) == IF item.fails THEN Err ELSE Ok(item.v + 10)

ProcessInit ==
    /\ ReportIdle /\ ScanIdle /\ WordIdle /\ ExtractIdle /\ WalkIdle /\ DetectIdle
    /\ UsageIdle /\ MoreIdle /\ target_word = <<>>
    /\ proc_pc = "call"
    /\ \E n \in 0..MaxItems : items \in [1..n -> ItemUniverse]
    /\ thread_count \in {None} \cup {Some(n) : n \in 1..MaxThreads}
    /\ show_progress \in BOOLEAN
    /\ pool = None
    /\ task_state = [k \in 1..Len(items) |-> "todo"]
    /\ applied = [k \in 1..Len(items) |-> 0]
    /\ progress_counter = 0
    /\ task_results = [k \in 1..Len(items) |-> None]
    /\ full = FALSE
    /\ saved_error = None
    /\ proc_result = None

notProcess ==
    <<reportVars, scanVars, wordVars, target_word, extractVars, walkVars, detectVars,
      usageVars, moreVars>>

\* calculate_progress_step_size (utils.rs)
calculate_progress_step_size(n, target_updates) ==
    IF n \div target_updates >= 1 THEN n \div target_updates ELSE 1

\* A lock that any worker may take while another holds it
lock_available_always(holder) == TRUE

\* update_progress, line 86: Mutex::lock returns when no worker holds the lock
lock_available(holder) == holder = None

\* A collect that keeps the last error it sees
save_error_last(saved, k) == Some(k)

\* Lines 49 and 55: the collect into a Result keeps the first error handed
\* to it and drops the later ones
save_error(saved, k) == IF saved = None THEN Some(k) ELSE saved

\* create_thread_pool, line 31: the given count, or the available
\* parallelism of the machine
CreateThreadPool ==
    /\ proc_pc = "call"
    /\ \E n \in 1..MaxThreads :
          /\ IsSome(thread_count) => n = Unwrap(thread_count)
          /\ pool' = Some(n)
    /\ proc_pc' = "pool"
    /\ UNCHANGED <<items, thread_count, show_progress, task_state, applied,
                   progress_counter, task_results, full, saved_error, proc_result,
                   notProcess>>

\* Lines 45-48 and 54: a free thread takes item k, unless the collect has
\* seen an error; it counts the item and calls the processor
StartItem(k) ==
    /\ proc_pc = "pool"
    /\ task_state[k] = "todo"
    /\ ~full
    /\ Cardinality({j \in 1..Len(items) : task_state[j] = "running"}) < Unwrap(pool)
    /\ task_state' = [task_state EXCEPT ![k] = "running"]
    /\ applied' = [applied EXCEPT ![k] = @ + 1]
    /\ progress_counter' = IF show_progress THEN progress_counter + 1 ELSE progress_counter
    /\ UNCHANGED <<proc_pc, items, thread_count, show_progress, pool, task_results, full,
                   saved_error, proc_result, notProcess>>

\* The processor returns for item k; an error stops the taking of items
FinishItem(k) ==
    /\ proc_pc = "pool"
    /\ task_state[k] = "running"
    /\ task_state' = [task_state EXCEPT ![k] = "done"]
    /\ task_results' = [task_results EXCEPT ![k] = Some(processor(items[k]))]
    /\ full' = (full \/ ~processor(items[k]).ok)
    /\ saved_error' = IF processor(items[k]).ok THEN saved_error ELSE save_error(saved_error, k)
    /\ UNCHANGED <<proc_pc, items, thread_count, show_progress, pool, applied,
                   progress_counter, proc_result, notProcess>>

\* Lines 49 and 55, 60-62: no item is running and none will be taken
Collect ==
    /\ proc_pc = "pool"
    /\ \A k \in 1..Len(items) : task_state[k] # "running"
    /\ full \/ \A k \in 1..Len(items) : task_state[k] = "done"
    /\ proc_result' = Some(process_collect(task_results))
    /\ proc_pc' = "done"
    /\ UNCHANGED <<items, thread_count, show_progress, pool, task_state, applied,
                   progress_counter, task_results, full, saved_error, notProcess>>

ProcessNext ==
    \/ CreateThreadPool
    \/ \E k \in 1..Len(items) : StartItem(k)
    \/ \E k \in 1..Len(items) : FinishItem(k)
    \/ Collect
SpecProcess == ProcessInit /\ [][ProcessNext]_vars

Returned == proc_pc = "done"
NoItemFails == \A k \in 1..Len(items) : ~items[k].fails
SomeApplicationFailed ==
    \E k \in 1..Len(items) : IsSome(task_results[k]) /\ ~Unwrap(task_results[k]).ok
OneResultPerItem ==
    /\ Unwrap(proc_result).ok
    /\ Len(Unwrap(proc_result).value) = Len(items)
    /\ \A k \in 1..Len(items) : Unwrap(proc_result).value[k] = processor(items[k]).value
SingleErrorNoResults == ~Unwrap(proc_result).ok /\ Unwrap(proc_result).value = <<>>

Running == {k \in 1..Len(items) : task_state[k] = "running"}
FailedItems ==
    {k \in 1..Len(items) : IsSome(task_results[k]) /\ ~Unwrap(task_results[k]).ok}

\* C22 as stated: a worker failure is not fail-fast: after an application
\* has failed the worker is still applied to every remaining item, the error
\* is returned only after all applications have completed, and the failure
\* surfaced is the first failure encountered.
C22_Original_NotFailFast ==
    (Returned /\ FailedItems # {}) =>
        /\ \A k \in 1..Len(items) : applied[k] = 1 /\ IsSome(task_results[k])
        /\ IsSome(saved_error) /\ Unwrap(saved_error) \in FailedItems

\* C22: a worker failure stops the taking of items: once an application has
\* failed no further item is taken, the applications already running
\* complete, the error is returned only after they have completed, and the
\* failure surfaced is the first one that occurred.
C22_FailFastForUntakenItems ==
    /\ [](/\ Returned => Running = {}
          /\ (Returned /\ FailedItems # {}) => ~Unwrap(proc_result).ok
          /\ (FailedItems # {}) = IsSome(saved_error)
          /\ IsSome(saved_error) => Unwrap(saved_error) \in FailedItems)
    /\ [][/\ (\E k \in 1..Len(items) : applied'[k] > applied[k]) => FailedItems = {}
          /\ IsSome(saved_error) => saved_error' = saved_error]_vars
\* Two applications in flight failed, the second to be taken first, and the
\* third item was never taken.
C22_Witness ==
    /\ Returned
    /\ Len(items) = 3
    /\ FailedItems = {1, 2}
    /\ saved_error = Some(2)
    /\ applied[3] = 0

(***************************************************************************)
(* generate_report where a thread pool may fail to build                   *)
(***************************************************************************)
MaxFailFiles == 2
FailFileUniverse == {TypesScss, AppJs, MainJs, ExtraCss, UniCss, IndexHtml}
FailTrees ==
    {t \in StringsUpTo(FailFileUniverse, MaxFailFiles) :
        \A j, k \in 1..Len(t) : j # k => t[j] # t[k]}
Failure(at, task) == [at |-> at, task |-> task]

FailInit ==
    /\ ScanIdle /\ WordIdle /\ ExtractIdle /\ WalkIdle /\ DetectIdle /\ UsageIdle
    /\ ProcessIdle /\ RestIdle /\ target_word = <<>>
    /\ dir \in FailTrees
    /\ config \in {None, Some(DefaultConfig)}
    /\ pc = "start"
    /\ all_files = <<>>
    /\ classes = <<>>
    /\ dynamic_patterns = {}
    /\ exact_results = <<>>
    /\ pattern_results = <<>>
    /\ report = None
    /\ gen_result = None
    /\ failures = {}

notFail ==
    <<scanVars, wordVars, target_word, extractVars, walkVars, detectVars, usageVars,
      processVars, restVars>>

\* A ? that returns the error: generate_report ends with no report
Fails(at, task) ==
    /\ failures' = failures \cup {Failure(at, task)}
    /\ gen_result' = Some(Err)
    /\ pc' = "done"

\* generate_report, line 65: the files are walked and read
WalkFiles ==
    /\ pc = "start"
    /\ all_files' = walk_with_content_parallel(dir, config)
    /\ pc' = "walked"
    /\ UNCHANGED <<dir, config, classes, dynamic_patterns, exact_results,
                   pattern_results, report, failVars, notFail>>

\* generate_report, line 65: the pool of the reading cannot be built
WalkPoolFails ==
    /\ pc = "start"
    /\ Fails("walk", 0)
    /\ UNCHANGED <<dir, config, all_files, classes, dynamic_patterns, exact_results,
                   pattern_results, report, notFail>>

\* generate_report, lines 66-69
ExtractFileClasses ==
    /\ pc = "walked"
    /\ classes' = extract_classes(filter_css_files(config, all_files))
    /\ pc' = "extracted"
    /\ UNCHANGED <<dir, config, all_files, dynamic_patterns, exact_results,
                   pattern_results, report, failVars, notFail>>

\* generate_report, line 69: the pool of the extraction cannot be built
ExtractPoolFails ==
    /\ pc = "walked"
    /\ Fails("extract", 0)
    /\ UNCHANGED <<dir, config, all_files, classes, dynamic_patterns, exact_results,
                   pattern_results, report, notFail>>

\* generate_report, line 72
InferDynamicPatterns ==
    /\ pc = "extracted"
    /\ dynamic_patterns' = detect_patterns(classes)
    /\ pc' = "patterns"
    /\ UNCHANGED <<dir, config, all_files, classes, exact_results, pattern_results,
                   report, failVars, notFail>>

\* analyze_class_usage, lines 149-156: the pool is built and phase 1 starts
BuildAnalysisPool ==
    /\ pc = "patterns"
    /\ exact_results' = [k \in 1..Len(classes) |-> None]
    /\ pc' = "phase1"
    /\ UNCHANGED <<dir, config, all_files, classes, dynamic_patterns, pattern_results,
                   report, failVars, notFail>>

\* analyze_class_usage, lines 149-152: the pool cannot be built
AnalysisPoolFails ==
    /\ pc = "patterns"
    /\ Fails("analysis", 0)
    /\ UNCHANGED <<dir, config, all_files, classes, dynamic_patterns, exact_results,
                   pattern_results, report, notFail>>

\* analyze_class_usage, lines 159-174: the phase-1 task of class k
ScanTask(k) ==
    /\ pc = "phase1"
    /\ exact_results[k] = None
    /\ exact_results' = [exact_results EXCEPT ![k] =
            Some(Ok([class |-> classes[k],
                     is_unused |-> is_class_unused_exact(classes[k], all_files)]))]
    /\ UNCHANGED <<dir, config, pc, all_files, classes, dynamic_patterns,
                   pattern_results, report, failVars, notFail>>

\* is_class_unused_exact, lines 260-261: the scan of class k cannot build its
\* pool, and the task returns the error
ScanTaskFails(k) ==
    /\ pc = "phase1"
    /\ exact_results[k] = None
    /\ exact_results' = [exact_results EXCEPT ![k] = Some(Err)]
    /\ failures' = failures \cup {Failure("scan", k)}
    /\ UNCHANGED <<dir, config, pc, all_files, classes, dynamic_patterns,
                   pattern_results, report, gen_result, notFail>>

\* Whether a batch can be collected: it has drained, or a task has failed
\* and the collect takes no more tasks
Drained(results) ==
    \/ \A k \in 1..Len(results) : IsSome(results[k])
    \/ \E k \in 1..Len(results) : IsSome(results[k]) /\ ~Unwrap(results[k]).ok

\* analyze_class_usage, lines 176-202: the collect of phase 1
CollectExact ==
    /\ pc = "phase1"
    /\ Drained(exact_results)
    /\ LET collected == collect_results(exact_results)
       IN  IF ~collected.ok
           THEN /\ gen_result' = Some(Err)
                /\ pc' = "done"
                /\ UNCHANGED pattern_results
           ELSE /\ UNCHANGED gen_result
                /\ IF runs_phase_2(collected.value, dynamic_patterns)
                   THEN /\ pattern_results' =
                               [k \in 1..Len(potentially_unused_classes(collected.value))
                                   |-> None]
                        /\ pc' = "phase2"
                   ELSE /\ pattern_results' = <<>>
                        /\ pc' = "no phase2"
    /\ UNCHANGED <<dir, config, all_files, classes, dynamic_patterns, exact_results,
                   report, failures, notFail>>

\* analyze_class_usage, lines 206-209: the phase-2 task of the k-th
\* potentially unused class; it has no failing path
PatternUsageTask(k) ==
    /\ pc = "phase2"
    /\ pattern_results[k] = None
    /\ LET class == potentially_unused_classes(collect_results(exact_results).value)[k]
       IN  pattern_results' = [pattern_results EXCEPT ![k] =
               Some(Ok([class |-> class,
                        is_used_via_pattern |->
                            is_class_unused_dynamic(class, all_files, dynamic_patterns)]))]
    /\ UNCHANGED <<dir, config, pc, all_files, classes, dynamic_patterns,
                   exact_results, report, failVars, notFail>>

\* analyze_class_usage, lines 211-253, and generate_report, lines 75-82
ReturnReport ==
    /\ \/ pc = "no phase2"
       \/ pc = "phase2" /\ Drained(pattern_results)
    /\ LET exact == collect_results(exact_results)
           patterned == collect_results(pattern_results)
       IN  gen_result' =
               IF patterned.ok
               THEN Some(Ok(build_report(classes, exact.value, patterned.value,
                                         pc = "phase2")))
               ELSE Some(Err)
    /\ pc' = "done"
    /\ UNCHANGED <<dir, config, all_files, classes, dynamic_patterns, exact_results,
                   pattern_results, report, failures, notFail>>

FailNext ==
    \/ WalkFiles
    \/ WalkPoolFails
    \/ ExtractFileClasses
    \/ ExtractPoolFails
    \/ InferDynamicPatterns
    \/ BuildAnalysisPool
    \/ AnalysisPoolFails
    \/ \E k \in 1..Len(exact_results) : ScanTask(k)
    \/ \E k \in 1..Len(exact_results) : ScanTaskFails(k)
    \/ CollectExact
    \/ \E k \in 1..Len(pattern_results) : PatternUsageTask(k)
    \/ ReturnReport
SpecFail == FailInit /\ [][FailNext]_vars

GenReturned == IsSome(gen_result)
GenReport == Unwrap(gen_result).value
AllSucceeded(results) ==
    \A k \in 1..Len(results) : IsSome(results[k]) /\ Unwrap(results[k]).ok
\* Every class record is in one of the two lists and under its file
FullyPopulated(r) ==
    /\ r.total_classes = Len(classes)
    /\ Len(r.used_classes) + Len(r.unused_classes) = Len(classes)
    /\ \A k \in 1..Len(classes) :
          /\ InList(r.used_classes, classes[k]) \/ InList(r.unused_classes, classes[k])
          /\ classes[k].file \in DOMAIN r.by_file
          /\ \E m \in 1..Len(r.by_file[classes[k].file]) :
                r.by_file[classes[k].file][m].class = classes[k]

\* C21: generate_report returns a fully populated report or an error, never
\* a partial report: a failure of a thread pool or of a task makes the call
\* return an error with no data, and a report is returned only when every
\* task of both phases succeeded.
C21_ReportOrError ==
    GenReturned =>
        /\ Unwrap(gen_result).ok = (failures = {})
        /\ ~Unwrap(gen_result).ok => GenReport = <<>> /\ report = None
        /\ Unwrap(gen_result).ok =>
              /\ FullyPopulated(GenReport)
              /\ Len(exact_results) = Len(classes)
              /\ AllSucceeded(exact_results)
              /\ AllSucceeded(pattern_results)
\* A phase-1 task failed after another had succeeded, and the call returned
\* an error.
C21_Witness ==
    /\ GenReturned
    /\ ~Unwrap(gen_result).ok
    /\ \E j, k \in 1..Len(exact_results) :
          /\ IsSome(exact_results[j]) /\ Unwrap(exact_results[j]).ok
          /\ IsSome(exact_results[k]) /\ ~Unwrap(exact_results[k]).ok

\* Task k of a batch gets its result in this step
Completes(results_before, results_after, k) ==
    /\ k \in 1..Len(results_after)
    /\ IsSome(results_after[k])
    /\ k \in 1..Len(results_before) => results_before[k] = None
\* The phase-1 record of a class, when its task has succeeded
MarkedUnused(class) ==
    \E k \in 1..Len(exact_results) :
        /\ IsSome(exact_results[k]) /\ Unwrap(exact_results[k]).ok
        /\ Unwrap(exact_results[k]).value.class = class
        /\ Unwrap(exact_results[k]).value.is_unused

\* C24: during generate_report the phases are strictly ordered: the dynamic
\* patterns are inferred before any phase-1 task starts, no phase-2 task
\* starts before every phase-1 task has finished, phase-2 tasks run only for
\* classes that phase 1 marked unused, and by_file and the used and unused
\* lists are built only after both batches have drained.
C24_PhasesOrdered ==
    /\ [][/\ (\E k \in 1..Len(exact_results') : Completes(exact_results, exact_results', k))
               => /\ pc = "phase1"
                  /\ dynamic_patterns = detect_patterns(classes)
                  /\ dynamic_patterns' = dynamic_patterns
          /\ (\E k \in 1..Len(pattern_results') :
                  Completes(pattern_results, pattern_results', k))
               => /\ Len(exact_results) = Len(classes)
                  /\ AllSucceeded(exact_results)
                  /\ exact_results' = exact_results
          /\ (gen_result = None /\ IsSome(gen_result') /\ Unwrap(gen_result').ok)
               => /\ AllSucceeded(exact_results) /\ exact_results' = exact_results
                  /\ AllSucceeded(pattern_results) /\ pattern_results' = pattern_results
         ]_vars
    /\ [](\A k \in 1..Len(pattern_results) :
             IsSome(pattern_results[k]) =>
                 MarkedUnused(Unwrap(pattern_results[k]).value.class))
\* A report after both phases: two classes went through phase 2 and one was
\* accounted for by phase 1.
C24_Witness ==
    /\ GenReturned
    /\ Unwrap(gen_result).ok
    /\ Len(pattern_results) = 2
    /\ Len(classes) = 3
    /\ Len(GenReport.used_classes) + Len(GenReport.unused_classes) = 3

\* C29: class records that share a name but come from different stylesheet
\* files receive the same final classification in a report, under every
\* interleaving of the parallel phases.
C29_SameNameSameClass ==
    (GenReturned /\ Unwrap(gen_result).ok) =>
        \A j, k \in 1..Len(classes) :
            classes[j].name = classes[k].name =>
                /\ InList(GenReport.used_classes, classes[j])
                      = InList(GenReport.used_classes, classes[k])
                /\ InList(GenReport.unused_classes, classes[j])
                      = InList(GenReport.unused_classes, classes[k])
                /\ InList(GenReport.used_classes, classes[j])
                      # InList(GenReport.unused_classes, classes[j])
\* The class ab declared by two stylesheets, both records in the same list.
C29_Witness ==
    /\ GenReturned
    /\ Unwrap(gen_result).ok
    /\ \E j, k \in 1..Len(classes) :
          /\ classes[j].name = classes[k].name
          /\ classes[j].file # classes[k].file
          /\ InList(GenReport.unused_classes, classes[j])
          /\ InList(GenReport.unused_classes, classes[k])

(***************************************************************************)
(* update_progress under the workers of a batch with progress enabled and  *)
(* no worker failure                                                       *)
(***************************************************************************)
MaxTotal == 41
MaxWorkers == 2

ProgressInit ==
    /\ ReportIdle /\ ScanIdle /\ WordIdle /\ ExtractIdle /\ WalkIdle /\ DetectIdle
    /\ UsageIdle /\ ProcessIdle /\ FailIdle /\ ContentIdle /\ GuiIdle /\ BuildIdle
    /\ target_word = <<>>
    /\ total \in 0..MaxTotal
    /\ taken = 0
    /\ \E n \in 1..MaxWorkers : worker_pc = [w \in 1..n |-> "idle"]
    /\ lock_holder = None
    /\ counter = 0
    /\ reported = <<>>

notProgress ==
    <<reportVars, scanVars, wordVars, target_word, extractVars, walkVars, detectVars,
      usageVars, processVars, failVars, contentVars, guiVars, buildVars>>

step_size == calculate_progress_step_size(total, 20)

\* process, lines 45-46: worker w takes the next item and calls update_progress
TakeItem(w) ==
    /\ worker_pc[w] = "idle"
    /\ taken < total
    /\ taken' = taken + 1
    /\ worker_pc' = [worker_pc EXCEPT ![w] = "lock"]
    /\ UNCHANGED <<total, lock_holder, counter, reported, notProgress>>

\* update_progress, line 86
Lock(w) ==
    /\ worker_pc[w] = "lock"
    /\ lock_available(lock_holder)
    /\ lock_holder' = Some(w)
    /\ worker_pc' = [worker_pc EXCEPT ![w] = "increment"]
    /\ UNCHANGED <<total, taken, counter, reported, notProgress>>

\* update_progress, line 87
Increment(w) ==
    /\ worker_pc[w] = "increment"
    /\ counter' = counter + 1
    /\ worker_pc' = [worker_pc EXCEPT ![w] = "test"]
    /\ UNCHANGED <<total, taken, lock_holder, reported, notProgress>>

\* update_progress, lines 88-90
ReportProgress(w) ==
    /\ worker_pc[w] = "test"
    /\ reported' = IF counter % step_size = 0 \/ counter = total
                   THEN Append(reported, counter)
                   ELSE reported
    /\ worker_pc' = [worker_pc EXCEPT ![w] = "unlock"]
    /\ UNCHANGED <<total, taken, lock_holder, counter, notProgress>>

\* update_progress, line 91: the guard is dropped; and process, line 47: the
\* processor is applied to the item
Unlock(w) ==
    /\ worker_pc[w] = "unlock"
    /\ lock_holder' = None
    /\ worker_pc' = [worker_pc EXCEPT ![w] = "idle"]
    /\ UNCHANGED <<total, taken, counter, reported, notProgress>>

ProgressNext ==
    \/ \E w \in 1..Len(worker_pc) : TakeItem(w)
    \/ \E w \in 1..Len(worker_pc) : Lock(w)
    \/ \E w \in 1..Len(worker_pc) : Increment(w)
    \/ \E w \in 1..Len(worker_pc) : ReportProgress(w)
    \/ \E w \in 1..Len(worker_pc) : Unlock(w)
SpecProgress == ProgressInit /\ [][ProgressNext]_vars

BatchDone == taken = total /\ \A w \in 1..Len(worker_pc) : worker_pc[w] = "idle"
IsReportable(v) == v % (IF total \div 20 >= 1 THEN total \div 20 ELSE 1) = 0 \/ v = total

\* C23: in a batch of N items with progress enabled and no worker failure the
\* counter is incremented exactly once per item under the lock, so under
\* every interleaving the reported values are strictly increasing, never
\* exceed N, a value is reported exactly when it is a multiple of
\* max(1, N/20) or equals N, and the final value N is reported exactly once.
C23_ProgressReports ==
    /\ counter <= taken /\ taken <= total
    /\ \A i \in 1..Len(reported) :
          /\ reported[i] \in 1..total
          /\ IsReportable(reported[i])
          /\ i > 1 => reported[i - 1] < reported[i]
    /\ BatchDone =>
          /\ counter = total
          /\ {reported[i] : i \in 1..Len(reported)} = {v \in 1..total : IsReportable(v)}
          /\ total >= 1 => Cardinality({i \in 1..Len(reported) : reported[i] = total}) = 1
\* A batch of 41 items on two workers: the step is 2, and 2, 4, .., 40 and 41
\* were reported.
C23_Witness ==
    /\ BatchDone
    /\ total = 41
    /\ Len(worker_pc) = 2
    /\ Len(reported) = 21
    /\ reported[20] = 40 /\ reported[21] = 41

(***************************************************************************)
(* process_content applied to one content                                  *)
(***************************************************************************)
MaxTextLines == 3

\* A rule, a line comment, a block comment followed by a rule, a line inside
\* a block comment, an empty and a blank line, a rule followed by a comment
ContentLines ==
    { <<".", "a", "b", "{", "}">>,
      <<"/", "/", " ", ".", "c", "d">>,
      <<" ", "/", "*", " ", ".", "c", "d", " ", "*", "/", " ", ".", "e", "f">>,
      <<" ", "*", " ", ".", "g", "h">>,
      <<>>,
      <<"\t">>,
      <<".", "a", "b", " ", "/", "*", " ", ".", "c", "d", " ", "*", "/", " ", ".", "e", "f">> }

ContentInit ==
    /\ ReportIdle /\ ScanIdle /\ WordIdle /\ ExtractIdle /\ WalkIdle /\ DetectIdle
    /\ UsageIdle /\ ProcessIdle /\ FailIdle /\ ProgressIdle /\ GuiIdle /\ BuildIdle
    /\ target_word = <<>>
    /\ source_lines \in StringsUpTo(ContentLines, MaxTextLines)
    /\ source_text = JoinLines(source_lines)
    /\ text_matches = None

ProcessContent ==
    /\ text_matches = None
    /\ text_matches' = Some(process_content(source_text))
    /\ UNCHANGED <<reportVars, scanVars, wordVars, target_word, extractVars, walkVars,
                   detectVars, usageVars, processVars, failVars, progressVars,
                   guiVars, buildVars, source_lines, source_text>>

ContentNext == ProcessContent
SpecContent == ContentInit /\ [][ContentNext]_vars

\* The line is empty after trimming, or its first character that is not
\* whitespace begins // or /*
IgnoredByRule(line) ==
    LET blackened == {i \in 1..Len(line) : line[i] \notin Whitespace}
    IN  \/ blackened = {}
        \/ LET i == Least(blackened)
           IN  i + 1 <= Len(line) /\ line[i] = "/" /\ line[i + 1] \in {"/", "*"}
Matches == Unwrap(text_matches)

\* C26: process_content produces no match from a line that, trimmed, is empty
\* or starts with // or /*, even when a class selector follows the comment on
\* that line; every match from another line carries the 1-based number of
\* that line, ignored lines counted; a line inside a multi-line comment that
\* does not itself start with /* is matched.
C26_CommentLinesIgnored ==
    IsSome(text_matches) =>
        /\ \A m \in 1..Len(Matches) :
              /\ Matches[m].line \in 1..Len(source_lines)
              /\ ~IgnoredByRule(source_lines[Matches[m].line])
              /\ Matches[m].matched_text \in CandidatesOfLine(source_lines[Matches[m].line])
              /\ m > 1 => Matches[m - 1].line <= Matches[m].line
        /\ \A k \in 1..Len(source_lines) :
              ~IgnoredByRule(source_lines[k]) =>
                  \A name \in CandidatesOfLine(source_lines[k]) :
                      \E m \in 1..Len(Matches) :
                          Matches[m].line = k /\ Matches[m].matched_text = name
\* A block comment that opens on line 1 with a rule after it, a line of the
\* comment on line 2, a rule on line 3: gh on line 2 and ab on line 3 match,
\* cd and ef on line 1 do not.
C26_Witness ==
    /\ source_lines = << <<" ", "/", "*", " ", ".", "c", "d", " ", "*", "/", " ", ".", "e", "f">>, <<" ", "*", " ", ".", "g", "h">>, <<".", "a", "b", "{", "}">> >>
    /\ IsSome(text_matches)
    /\ Len(Matches) = 2
    /\ Matches[1].matched_text = <<"g", "h">> /\ Matches[1].line = 2
    /\ Matches[2].matched_text = <<"a", "b">> /\ Matches[2].line = 3

(***************************************************************************)
(* The window: App (frontend/src/app.rs) and its Controls                  *)
(* (frontend/src/components/controls.rs).  A backend request is started by *)
(* TauriService::analyze_css or find_word (services/tauri.rs), which spawn *)
(* a local future; the callback runs when the backend answers, so that the *)
(* callbacks of two requests run in either order.  The folder dialog of    *)
(* select_directory blocks the window until it returns.                    *)
(***************************************************************************)
MaxRequests == 3
Directories == {"/p", "/q"}
SearchWords == {"", "a", "b"}

\* enum AppState; result is the request the report or scan result answers
AppIdle == [tag |-> "Idle", message |-> "", word |-> "", result |-> None]
Loading(message) == [tag |-> "Loading", message |-> message, word |-> "", result |-> None]
ShowingAnalysis(request) ==
    [tag |-> "ShowingAnalysis", message |-> "", word |-> "", result |-> Some(request)]
ShowingWordSearch(word, request) ==
    [tag |-> "ShowingWordSearch", message |-> "", word |-> word, result |-> Some(request)]
AppError(message) == [tag |-> "Error", message |-> message, word |-> "", result |-> None]

\* let is_loading = matches!(*state, AppState::Loading(_))
is_loading == app_state.tag = "Loading"

\* The invocation of a backend command, numbered in the order of starting
Request(id, cmd, directory, word) ==
    [id |-> id, cmd |-> cmd, directory |-> directory, word |-> word]

GuiInit ==
    /\ ReportIdle /\ ScanIdle /\ WordIdle /\ ExtractIdle /\ WalkIdle /\ DetectIdle
    /\ UsageIdle /\ ProcessIdle /\ FailIdle /\ ProgressIdle /\ ContentIdle /\ BuildIdle
    /\ target_word = <<>>
    /\ app_state = AppIdle
    /\ selected_directory = ""
    /\ search_word = ""
    /\ pending = {}
    /\ issued = 0

notGui ==
    <<reportVars, scanVars, wordVars, target_word, extractVars, walkVars, detectVars,
      usageVars, processVars, failVars, progressVars, contentVars, buildVars>>

\* The closure of on_analyze past its early return
on_analyze ==
    /\ selected_directory # ""
    /\ issued < MaxRequests
    /\ app_state' = Loading("Analyzing CSS classes...")
    /\ issued' = issued + 1
    /\ pending' = pending \cup {Request(issued + 1, "analyze_css", selected_directory, "")}
    /\ UNCHANGED <<selected_directory, search_word, notGui>>

\* The closure of on_find_word past its early return
on_find_word ==
    /\ selected_directory # "" /\ search_word # ""
    /\ issued < MaxRequests
    /\ app_state' = Loading("Searching for word...")
    /\ issued' = issued + 1
    /\ pending' = pending \cup
                    {Request(issued + 1, "find_word", selected_directory, search_word)}
    /\ UNCHANGED <<selected_directory, search_word, notGui>>

\* The Browse button, enabled unless is_loading: on_browse, the dialog and
\* the callback with the folder picked or None
ClickBrowse ==
    /\ ~is_loading
    /\ \E directory \in {None} \cup {Some(d) : d \in Directories} :
          IF IsSome(directory)
          THEN /\ selected_directory' = Unwrap(directory)
               /\ app_state' = AppIdle
          ELSE /\ app_state' = AppError("Failed to select directory")
               /\ UNCHANGED selected_directory
    /\ UNCHANGED <<search_word, pending, issued, notGui>>

\* on_search_input: the search input, which is never disabled
TypeSearchWord ==
    /\ \E word \in SearchWords \ {search_word} : search_word' = word
    /\ UNCHANGED <<app_state, selected_directory, pending, issued, notGui>>

\* The Analyze CSS button
ClickAnalyze ==
    /\ ~(selected_directory = "" \/ is_loading)
    /\ on_analyze

\* The Find Word button
ClickFindWord ==
    /\ ~(selected_directory = "" \/ search_word = "" \/ is_loading)
    /\ on_find_word

\* on_search_keypress: a key pressed in the search input
PressKey ==
    \E key \in {"Enter", "a"} :
        /\ key = "Enter"
        /\ on_find_word

\* The callback of a request runs with the answer of the backend
Respond ==
    \E request \in pending, ok \in BOOLEAN :
        /\ pending' = pending \ {request}
        /\ app_state' =
              IF ~ok THEN AppError("backend")
              ELSE IF request.cmd = "analyze_css" THEN ShowingAnalysis(request)
              ELSE ShowingWordSearch(request.word, request)
        /\ UNCHANGED <<selected_directory, search_word, issued, notGui>>

GuiNext ==
    \/ ClickBrowse
    \/ TypeSearchWord
    \/ ClickAnalyze
    \/ ClickFindWord
    \/ PressKey
    \/ Respond

SpecGui == GuiInit /\ [][GuiNext]_vars

\* C28: at most one response callback is pending at any time, and a result
\* shown belongs to the most recently issued request.
C28_OneRequestAtATime ==
    /\ Cardinality(pending) <= 1
    /\ IsSome(app_state.result) => Unwrap(app_state.result).id = issued

(***************************************************************************)
(* The builder methods of FileWalker (file_walker.rs): FileWalker::new,    *)
(* then any sequence of with_thread_count, with_config (the inherent one   *)
(* and the one of ConfigConfigurable), with_extensions and with_filter,    *)
(* then walk.                                                              *)
(***************************************************************************)
MaxCalls == 3
MaxTreeEntries == 2
TreeEntryUniverse ==
    { Entry(<<".">>, "index.html", Some("html"), TRUE, TRUE),
      Entry(<<".", "node_modules">>, "lib.css", Some("css"), TRUE, TRUE),
      Entry(<<".">>, "Makefile", None, TRUE, TRUE),
      Entry(<<".">>, "theme.less", Some("less"), TRUE, TRUE) }

\* FileWalker::new
FileWalker_new == [file_filter |-> NewFilter, thread_count |-> None, config |-> None]

\* FileWalker::with_thread_count, and ThreadCountConfigurable::with_thread_count
with_thread_count(self, count) == [self EXCEPT !.thread_count = Some(count)]

\* FileWalker::with_config
with_config(self, cfg) ==
    [self EXCEPT !.file_filter = ConfigFilter(cfg), !.config = Some(cfg)]

\* ConfigConfigurable::with_config for FileWalker
ConfigConfigurable_with_config(self, cfg) ==
    [self EXCEPT !.file_filter = ExcludeDirsFilter(cfg), !.config = Some(cfg)]

\* A with_extensions that leaves the filter of a configured walker in place
with_extensions_keeping_config(self, extensions) ==
    IF IsSome(self.config) THEN self
    ELSE [self EXCEPT !.file_filter = ExtensionsFilter(extensions)]

\* FileWalker::with_extensions
with_extensions(self, extensions) ==
    [self EXCEPT !.file_filter = ExtensionsFilter(extensions)]

\* FileWalker::with_filter
with_filter(self, closure) == [self EXCEPT !.file_filter = ClosureFilter(closure)]

BuilderCall(method, argument) == [method |-> method, argument |-> argument]

BuildInit ==
    /\ ReportIdle /\ ScanIdle /\ WordIdle /\ ExtractIdle /\ WalkIdle /\ DetectIdle
    /\ UsageIdle /\ ProcessIdle /\ FailIdle /\ ProgressIdle /\ ContentIdle /\ GuiIdle
    /\ target_word = <<>>
    /\ tree_entries \in {es \in StringsUpTo(TreeEntryUniverse, MaxTreeEntries) :
                            \A j, k \in 1..Len(es) : j # k => es[j] # es[k]}
    /\ walker = Some(FileWalker_new)
    /\ calls = <<>>
    /\ walked = None

notBuild ==
    <<reportVars, scanVars, wordVars, target_word, extractVars, walkVars, detectVars,
      usageVars, processVars, failVars, progressVars, contentVars, guiVars>>

\* A builder method takes the walker and gives it back
Builds(method, argument, built) ==
    /\ Len(calls) < MaxCalls
    /\ walker' = Some(built)
    /\ calls' = Append(calls, BuilderCall(method, argument))
    /\ UNCHANGED <<tree_entries, walked, notBuild>>

CallWithThreadCount ==
    \E count \in {2, 4} :
        /\ walked = None
        /\ Builds("with_thread_count", count, with_thread_count(Unwrap(walker), count))

CallWithConfig ==
    \E cfg \in {DefaultConfig, LessConfig} :
        /\ walked = None
        /\ Builds("with_config", cfg, with_config(Unwrap(walker), cfg))

CallConfigConfigurableWithConfig ==
    \E cfg \in {DefaultConfig} :
        /\ walked = None
        /\ Builds("ConfigConfigurable::with_config", cfg,
                  ConfigConfigurable_with_config(Unwrap(walker), cfg))

\* As CssParser calls it
CallWithExtensions ==
    \E extensions \in {{"css", "scss"}} :
        /\ walked = None
        /\ Builds("with_extensions", extensions, with_extensions(Unwrap(walker), extensions))

CallWithFilter ==
    \E closure \in {"is_makefile"} :
        /\ walked = None
        /\ Builds("with_filter", closure, with_filter(Unwrap(walker), closure))

\* FileWalker::walk
CallWalk ==
    /\ walked = None
    /\ walked' = Some(FileWalker_walk(tree_entries, Unwrap(walker).file_filter))
    /\ UNCHANGED <<tree_entries, walker, calls, notBuild>>

BuildNext ==
    \/ CallWithThreadCount
    \/ CallWithConfig
    \/ CallConfigConfigurableWithConfig
    \/ CallWithExtensions
    \/ CallWithFilter
    \/ CallWalk

SpecBuild == BuildInit /\ [][BuildNext]_vars

\* The calls that set a filter, and the test each of them states
SetsFilter(call) == call.method # "with_thread_count"
PassesCall(call, path) ==
    CASE call.method = "with_config" ->
             /\ \A component \in PathComponents(path) :
                    component \notin call.argument.exclude_dirs
             /\ IsSome(path.ext)
             /\ Unwrap(path.ext) \in
                    call.argument.include_extensions \cup call.argument.css_extensions
      [] call.method = "ConfigConfigurable::with_config" ->
             \A component \in PathComponents(path) :
                 component \notin call.argument.exclude_dirs
      [] call.method = "with_extensions" ->
             IsSome(path.ext) /\ Unwrap(path.ext) \in call.argument
      [] call.method = "with_filter" ->
             call.argument = "is_makefile" /\ path.name = "Makefile"
LastFilterCall ==
    LET ks == {k \in 1..Len(calls) : SetsFilter(calls[k])}
    IN  IF ks = {} THEN 0 ELSE CHOOSE k \in ks : \A j \in ks : j <= k
WalkedPaths == {Unwrap(walked)[k].path : k \in 1..Len(Unwrap(walked))}
TreeFilePaths ==
    {tree_entries[k].path : k \in {j \in 1..Len(tree_entries) : tree_entries[j].is_file}}

\* C30: the walk applies only the filter of the last of with_config,
\* with_extensions and with_filter (every file when there was none), and
\* with_thread_count leaves the filter and the configuration as they were.
C30_LastFilterCallWins ==
    /\ [](IsSome(walked) =>
            \A path \in TreeFilePaths :
                path \in WalkedPaths <=>
                    (LastFilterCall = 0 \/ PassesCall(calls[LastFilterCall], path)))
    /\ [][(/\ Len(calls') = Len(calls) + 1
           /\ calls'[Len(calls')].method = "with_thread_count")
          => /\ Unwrap(walker').file_filter = Unwrap(walker).file_filter
             /\ Unwrap(walker').config = Unwrap(walker).config]_vars

\* with_config, then with_extensions, then with_thread_count: the walk
\* returns the stylesheet under node_modules
C30_Witness ==
    /\ Len(calls) = 3
    /\ calls[1].method = "with_config"
    /\ calls[2].method = "with_extensions"
    /\ calls[3].method = "with_thread_count"
    /\ IsSome(walked)
    /\ \E k \in 1..Len(Unwrap(walked)) : Unwrap(walked)[k].path.name = "lib.css"

====
